---------------------------- MODULE Spec2Model ----------------------------
(***************************************************************************)
(* A model of the Python MMDVMHost port: the M17 codec (m17_crc.py,        *)
(* m17_lsf.py), the M17 controller (m17_control.py), the M17 network       *)
(* endpoint (m17_network.py), the modem interface (modem.py) and the mode  *)
(* arbiter (mmdvm_host.py).                                                *)
(*                                                                         *)
(* Bytes are integers 0..255 and byte strings are sequences of bytes.  A   *)
(* Python exception is modelled by its class name in an "err" field; the   *)
(* empty string means that the call returned normally.                     *)
(***************************************************************************)
EXTENDS Integers, Sequences, FiniteSets, TLC

(***************************************************************************)
(* Protocol constants: m17_defines.py (used by m17_control.py) and         *)
(* m17_config.py (used by m17_lsf.py).                                     *)
(***************************************************************************)
FRAME_LENGTH_BYTES == 48
SYNC_LENGTH_BYTES == 2
LSF_LENGTH_BYTES == 30
LSF_FRAGMENT_LENGTH_BYTES == 5
CRC_LENGTH_BYTES == 2
PAYLOAD_LENGTH_BYTES == 16
MAX_CALLSIGN_LENGTH == 6
MIN_FRAME_LENGTH == 6
MAX_FRAME_LENGTH == 48
NUM_LICH_FRAGMENTS == 6
LINK_SETUP_SYNC == <<85, 247>>
STREAM_SYNC == <<255, 93>>
EOT_SYNC == <<85, 93>>
NULL_NONCE == [i \in 1..14 |-> 0]

(***************************************************************************)
(* Byte-string helpers: Python slicing data[a:b] (0-based, b exclusive,    *)
(* clipped to the length), bytes.ljust and big-endian conversion.          *)
(***************************************************************************)
\* F applied to v: the value v is computed once and named by F's parameter.
With(v, F(_)) == F(v)

Min(a, b) == IF a < b THEN a ELSE b
Slice(data, a, b) == SubSeq(data, a + 1, Min(b, Len(data)))
Zeros(n) == [i \in 1..n |-> 0]
LJust(data, n) == IF Len(data) >= n THEN data ELSE data \o Zeros(n - Len(data))
ToBytes2(v) == <<v \div 256, v % 256>>
FromBytes2(b) == b[1] * 256 + b[2]

(***************************************************************************)
(* Bitwise operations on 16-bit words.  A 32-bit word is a pair            *)
(* <<high half, low half>>.                                                *)
(***************************************************************************)
RECURSIVE Xor(_, _)
Xor(a, b) ==
    IF a = 0 THEN b
    ELSE IF b = 0 THEN a
    ELSE (((a % 2) + (b % 2)) % 2) + 2 * Xor(a \div 2, b \div 2)

RECURSIVE And(_, _)
And(a, b) ==
    IF a = 0 \/ b = 0 THEN 0
    ELSE ((a % 2) * (b % 2)) + 2 * And(a \div 2, b \div 2)

Or(a, b) == Xor(Xor(a, b), And(a, b))

Xor32(x, y) == <<Xor(x[1], y[1]), Xor(x[2], y[2])>>
Shr32(x, n) == <<x[1] \div (2 ^ n), (x[2] \div (2 ^ n)) + (x[1] % (2 ^ n)) * (2 ^ (16 - n))>>

(***************************************************************************)
(* zlib.crc32: the reflected CRC-32 (polynomial 0xEDB88320 = <<60856,      *)
(* 33568>>), initial value and final xor 0xFFFFFFFF, table driven.         *)
(***************************************************************************)
RECURSIVE CrcBits(_, _)
CrcBits(c, k) ==
    IF k = 0 THEN c
    ELSE CrcBits(IF c[2] % 2 = 1 THEN Xor32(Shr32(c, 1), <<60856, 33568>>)
                 ELSE Shr32(c, 1), k - 1)

CrcTable == [n \in 0..255 |-> CrcBits(<<0, n>>, 8)]

\* One byte b folded into the running value c.
CrcStep(c, b) == Xor32(CrcTable[Xor(c[2] % 256, b)], Shr32(c, 8))

\* The bytes data[i..] folded into c.  The running value is computed before
\* the next byte is folded in.
RECURSIVE CrcFold(_, _, _)
CrcFold(c, data, i) ==
    IF i > Len(data) THEN c
    ELSE LET n == CrcStep(c, data[i])
         IN  IF n[1] >= 0 THEN CrcFold(n, data, i + 1) ELSE n

zlib_crc32(data) ==
    IF Len(data) >= 0 THEN Xor32(CrcFold(<<65535, 65535>>, data, 1), <<65535, 65535>>)
    ELSE <<0, 0>>

(***************************************************************************)
(* m17_crc.py.  A result is [err, val]: err is the exception raised ("" for *)
(* a normal return) and val the value returned.                            *)
(***************************************************************************)
create_crc16(data) ==
    IF Len(data) = 0 THEN [err |-> "ValueError", val |-> 0]
    ELSE [err |-> "", val |-> zlib_crc32(data)[2]]

check_crc16(data) ==
    IF Len(data) < 3 THEN [err |-> "ValueError", val |-> FALSE]
    ELSE With(create_crc16(Slice(data, 0, Len(data) - 2)), LAMBDA c :
             IF c.err # "" THEN [err |-> "CRCError", val |-> FALSE]
             ELSE [err |-> "",
                   val |-> c.val = FromBytes2(Slice(data, Len(data) - 2, Len(data)))])

\* encode_crc16 after the CRC has been appended: the verification of result.
encode_crc16_verify(result) ==
    IF ~check_crc16(result).val THEN [err |-> "CRCError", val |-> <<>>]
    ELSE [err |-> "", val |-> result]

\* encode_crc16 appending the CRC low byte first, without verification.
encode_crc16_little_endian(data) ==
    With(create_crc16(data), LAMBDA c :
        [err |-> "", val |-> data \o <<c.val % 256, c.val \div 256>>])

encode_crc16(data) ==
    With(create_crc16(data), LAMBDA c :
        IF c.err # "" THEN [err |-> c.err, val |-> <<>>]
        ELSE encode_crc16_verify(data \o ToBytes2(c.val)))

(***************************************************************************)
(* m17_defines.py: the legal values of the four fields of the type byte.   *)
(***************************************************************************)
PacketType == {0, 1}
DataType == {1, 2, 3}
EncryptionType == {0, 1, 2}
EncryptionSubType == {0, 1, 2}
ENC_NONE == 0
ENC_AES == 1
ENC_SCRAMBLE == 2

(***************************************************************************)
(* m17_lsf.py, class LSF.  A callsign (a Python str) is the sequence of    *)
(* its character codes.                                                    *)
(***************************************************************************)
Whitespace == {9, 10, 11, 12, 13, 28, 29, 30, 31, 32}

RECURSIVE RStrip(_, _)
RStrip(s, drop) ==
    IF Len(s) > 0 /\ s[Len(s)] \in drop THEN RStrip(SubSeq(s, 1, Len(s) - 1), drop) ELSE s

RECURSIVE LStrip(_, _)
LStrip(s, drop) ==
    IF Len(s) > 0 /\ s[1] \in drop THEN LStrip(Tail(s), drop) ELSE s

AsciiIgnore(s) == SelectSeq(s, LAMBDA b : b < 128)

\* _decode_callsign keeping the NUL padding of the six-byte field.
LSF_decode_callsign_padded(data) == AsciiIgnore(data)

LSF_decode_callsign(data) ==
    LStrip(RStrip(AsciiIgnore(RStrip(data, {0})), Whitespace), Whitespace)

LSF_encode_callsign(callsign) == LJust(Slice(callsign, 0, 6), 6)

NoLSF ==
    [dst_callsign |-> <<>>, src_callsign |-> <<>>, can |-> 0, packet_type |-> 0,
     data_type |-> 0, encryption_type |-> 0, encryption_subtype |-> 0, nonce |-> <<>>]

LSF_decode(data) ==
    IF Len(data) < LSF_LENGTH_BYTES THEN [err |-> "ValueError", lsf |-> NoLSF]
    ELSE IF ~check_crc16(data).val THEN [err |-> "LSFDecodeError", lsf |-> NoLSF]
    ELSE LET type_byte == data[13]
             pt == type_byte % 2
             dt == (type_byte \div 2) % 4
             et == (type_byte \div 8) % 4
             es == (type_byte \div 32) % 4
         IN  IF pt \notin PacketType \/ dt \notin DataType
                \/ et \notin EncryptionType \/ es \notin EncryptionSubType
             THEN [err |-> "LSFDecodeError", lsf |-> NoLSF]
             ELSE [err |-> "",
                   lsf |-> [dst_callsign |-> LSF_decode_callsign(Slice(data, 0, 6)),
                            src_callsign |-> LSF_decode_callsign(Slice(data, 6, 12)),
                            can |-> FromBytes2(Slice(data, 13, 15)),
                            packet_type |-> pt, data_type |-> dt,
                            encryption_type |-> et, encryption_subtype |-> es,
                            nonce |-> Slice(data, 15, 29)]]

\* The fields of an LSF laid out as LSF.encode does, before padding and CRC.
LSF_fields(lsf) ==
    LSF_encode_callsign(lsf.dst_callsign) \o LSF_encode_callsign(lsf.src_callsign)
    \o <<Or(Or(lsf.packet_type, lsf.data_type * 2),
            Or(lsf.encryption_type * 8, lsf.encryption_subtype * 32))>>
    \o ToBytes2(lsf.can) \o lsf.nonce

LSF_encode(lsf) ==
    IF Len(lsf.dst_callsign) = 0 \/ Len(lsf.dst_callsign) > MAX_CALLSIGN_LENGTH
       \/ Len(lsf.src_callsign) = 0 \/ Len(lsf.src_callsign) > MAX_CALLSIGN_LENGTH
       \/ lsf.can < 0 \/ lsf.can > 65535
       \/ Len(lsf.nonce) # Len(NULL_NONCE)
    THEN [err |-> "LSFEncodeError", val |-> <<>>]
    ELSE With(encode_crc16(LJust(LSF_fields(lsf), LSF_LENGTH_BYTES - CRC_LENGTH_BYTES)),
              LAMBDA r : IF r.err # "" THEN [err |-> "LSFEncodeError", val |-> <<>>] ELSE r)

(***************************************************************************)
(* m17_lsf.py, class StreamFrame.  An Optional[bytes] is [some, v]: None   *)
(* is [some |-> FALSE, v |-> <<>>].                                        *)
(***************************************************************************)
None == [some |-> FALSE, v |-> <<>>]
Some(b) == [some |-> TRUE, v |-> b]
\* Python truthiness of an Optional[bytes]: None and b"" are false.
Truthy(o) == o.some /\ Len(o.v) > 0

NoFrame == [frame_number |-> 0, payload |-> <<>>, lich_fragment |-> None, is_last |-> FALSE]

\* m17_lsf.py does not import StreamDecodeError: the raise statements of
\* decode end in a NameError, which no except clause of decode handles.
StreamFrame_decode(data) ==
    IF Len(data) < MIN_FRAME_LENGTH \/ Len(data) > MAX_FRAME_LENGTH
    THEN [err |-> "ValueError", frame |-> NoFrame]
    ELSE IF ~check_crc16(data).val THEN [err |-> "NameError", frame |-> NoFrame]
    ELSE IF Slice(data, 0, SYNC_LENGTH_BYTES) # STREAM_SYNC
    THEN [err |-> "NameError", frame |-> NoFrame]
    ELSE LET fn == FromBytes2(Slice(data, SYNC_LENGTH_BYTES, SYNC_LENGTH_BYTES + 2))
             frame_number == fn % 32768
         IN  [err |-> "",
              frame |-> [frame_number |-> frame_number,
                         payload |-> Slice(data, SYNC_LENGTH_BYTES + 6,
                                           FRAME_LENGTH_BYTES - CRC_LENGTH_BYTES),
                         lich_fragment |->
                             IF frame_number < NUM_LICH_FRAGMENTS
                             THEN Some(Slice(data, SYNC_LENGTH_BYTES + 2, SYNC_LENGTH_BYTES + 6))
                             ELSE None,
                         is_last |-> fn >= 32768]]

\* StreamEncodeError is not imported either: a failed validation ends in a
\* NameError.
StreamFrame_encode(frame) ==
    IF frame.frame_number < 0 \/ frame.frame_number > 32767
       \/ (frame.lich_fragment.some
           /\ Len(frame.lich_fragment.v) # LSF_FRAGMENT_LENGTH_BYTES)
       \/ Len(frame.payload) > PAYLOAD_LENGTH_BYTES
    THEN [err |-> "NameError", val |-> <<>>]
    ELSE encode_crc16(LJust(
             STREAM_SYNC
             \o ToBytes2(frame.frame_number + (IF frame.is_last THEN 32768 ELSE 0))
             \o (IF Truthy(frame.lich_fragment) THEN frame.lich_fragment.v ELSE Zeros(4))
             \o frame.payload,
             FRAME_LENGTH_BYTES - CRC_LENGTH_BYTES))

(***************************************************************************)
(* m17_network.py, class M17Network: enable and write.  n is the           *)
(* endpoint's fields; net_write returns the datagrams handed to            *)
(* socket.sendto.                                                          *)
(***************************************************************************)
net_enable(n, enabled) ==
    [n EXCEPT !.enabled = enabled, !.connected = IF enabled THEN @ ELSE FALSE]

net_write(n, data) == IF ~n.enabled \/ ~n.socket THEN <<>> ELSE <<data>>

RECURSIVE net_write_all(_, _)
net_write_all(n, out) ==
    IF out = <<>> THEN <<>> ELSE net_write(n, Head(out)) \o net_write_all(n, Tail(out))

\* Buffer capacity (line 32), keepalive period in seconds (line 116), and
\* what time.time() returns when the model's clock reads 0.
QueueSize == 3000
PingInterval == 5
Epoch == 1000

\* The endpoint after construction: no socket, no receive worker.  out_id
\* is drawn at random by the constructor; 4660 is one of its values.
\* rx_thread is "none" (None), or the worker's position: "loop" (at the
\* condition of its while loop), "recv" (inside recvfrom) or "done".
NewNetwork ==
    [socket |-> FALSE, enabled |-> FALSE, connected |-> FALSE, running |-> FALSE,
     buffer |-> <<>>, last_ping |-> 0, out_id |-> 4660, rx_thread |-> "none"]

\* The ping datagram of send_ping.
ping(n) == <<0, n.out_id \div 256, n.out_id % 256>>

\* send_ping: sent tells whether socket.sendto returned or raised.
send_ping(n, sent) ==
    IF ~n.socket THEN n
    ELSE IF sent THEN n ELSE [n EXCEPT !.connected = FALSE]

\* The datagrams send_ping hands to the gateway.
send_ping_out(n, sent) == IF n.socket /\ sent THEN <<ping(n)>> ELSE <<>>

\* open: outcome is "no_socket" (socket.socket raised), "bind_fails" (bind
\* raised) or "ok"; a result is the endpoint, the value returned and the
\* datagrams sent.
net_open(n, outcome, sent) ==
    IF outcome = "no_socket" THEN [n |-> n, ret |-> "False", out |-> <<>>]
    ELSE IF outcome = "bind_fails"
    THEN [n |-> [n EXCEPT !.socket = TRUE], ret |-> "False", out |-> <<>>]
    ELSE [n |-> send_ping([n EXCEPT !.socket = TRUE, !.running = TRUE,
                                     !.rx_thread = "loop"], sent),
          ret |-> "True", out |-> send_ping_out([n EXCEPT !.socket = TRUE], sent)]

\* clock(ms) at time.time() = t: ms is not used.
net_clock(n, t, sent) ==
    IF ~n.enabled THEN [n |-> n, out |-> <<>>]
    ELSE IF t - n.last_ping >= PingInterval
    THEN [n |-> [send_ping(n, sent) EXCEPT !.last_ping = t], out |-> send_ping_out(n, sent)]
    ELSE [n |-> n, out |-> <<>>]

\* write(data): the datagrams sent; sent tells whether socket.sendto
\* returned or raised.  No field of the endpoint is assigned.
net_write_sent(n, data, sent) == IF sent THEN net_write(n, data) ELSE <<>>

\* reset: id is the out_id drawn.
net_reset(n, id) == [n EXCEPT !.connected = FALSE, !.buffer = <<>>, !.out_id = id]

\* close, from the call to the return: the worker has been joined.
net_close(n) ==
    [n EXCEPT !.running = FALSE, !.socket = FALSE,
              !.rx_thread = IF @ = "none" THEN @ ELSE "done"]

\* read: a result is the endpoint and the datagram returned.
net_read(n) ==
    IF ~n.enabled \/ n.buffer = <<>> THEN [n |-> n, ret |-> None]
    ELSE [n |-> [n EXCEPT !.buffer = Tail(@)], ret |-> Some(Head(n.buffer))]

\* The receive worker queueing the data of any peer.
rx_loop_datagram_queues_any(n, data, from_gateway) ==
    IF Len(data) > 0 /\ data[1] = 0
    THEN IF from_gateway THEN [n EXCEPT !.connected = TRUE] ELSE n
    ELSE IF Len(n.buffer) < QueueSize THEN [n EXCEPT !.buffer = Append(@, data)] ELSE n

\* The receive worker making room in a full queue by dropping the oldest
\* packet.
rx_loop_datagram_drops_oldest(n, data, from_gateway) ==
    IF Len(data) > 0 /\ from_gateway
    THEN IF data[1] = 0 THEN [n EXCEPT !.connected = TRUE]
         ELSE IF Len(n.buffer) < QueueSize THEN [n EXCEPT !.buffer = Append(@, data)]
         ELSE [n EXCEPT !.buffer = Append(Tail(@), data)]
    ELSE n

\* The receive worker taking a ping response from any peer.
rx_loop_datagram_any_peer(n, data, from_gateway) ==
    IF Len(data) > 0 /\ data[1] = 0 THEN [n EXCEPT !.connected = TRUE] ELSE n

\* One pass of the receive worker's loop that received data from the gateway
\* address (from_gateway) or from another peer.
rx_loop_datagram(n, data, from_gateway) ==
    IF Len(data) > 0 /\ from_gateway
    THEN IF data[1] = 0 THEN [n EXCEPT !.connected = TRUE]
         ELSE IF Len(n.buffer) < QueueSize THEN [n EXCEPT !.buffer = Append(@, data)] ELSE n
    ELSE n

(***************************************************************************)
(* Bounds of the model and the inputs fed to the controller.               *)
(***************************************************************************)
MaxTxFrames == 2
MaxNow == 2
TxHang == 1
RFModeHang == 1
MaxRx == 2

LocalCallsign == <<65, 66>>
OtherCallsign == <<90, 90>>
Payload == [i \in 1..16 |-> i]

MkLSF(dst, enc) ==
    [dst_callsign |-> dst, src_callsign |-> <<67, 68>>, can |-> 1, packet_type |-> 1,
     data_type |-> 2, encryption_type |-> enc, encryption_subtype |-> 0,
     nonce |-> NULL_NONCE]

\* A 48-byte LINK_SETUP frame whose last two bytes are the CRC of bytes
\* 2..45: the frames LSF.decode accepts when handed data[2:].
LinkSetupFrame(lsf) ==
    LINK_SETUP_SYNC
    \o encode_crc16(LJust(LSF_fields(lsf),
                          FRAME_LENGTH_BYTES - SYNC_LENGTH_BYTES - CRC_LENGTH_BYTES)).val

FlipLast(f) == [f EXCEPT ![Len(f)] = Xor(@, 1)]

StreamInput(seq, is_last) ==
    StreamFrame_encode([frame_number |-> seq, payload |-> Payload,
                        lich_fragment |-> None, is_last |-> is_last]).val

LsfLocal == LinkSetupFrame(MkLSF(LocalCallsign, ENC_NONE))
LsfOther == LinkSetupFrame(MkLSF(OtherCallsign, ENC_NONE))
LsfAes == LinkSetupFrame(MkLSF(LocalCallsign, ENC_AES))
LsfScramble == LinkSetupFrame(MkLSF(OtherCallsign, ENC_SCRAMBLE))
LsfBadCrc == FlipLast(LsfLocal)
StreamLow == StreamInput(0, FALSE)
StreamHigh == StreamInput(6, FALSE)
StreamLast == StreamInput(7, TRUE)
EotFrame == LJust(EOT_SYNC, FRAME_LENGTH_BYTES)
\* A 48-byte frame whose first two bytes are none of the three sync words.
BadSyncFrame == LJust(<<85, 85>>, FRAME_LENGTH_BYTES)
\* A frame that is not 48 bytes long.
ShortFrame == LJust(LINK_SETUP_SYNC, FRAME_LENGTH_BYTES - 1)

RfInputs ==
    {LsfLocal, LsfOther, LsfAes, LsfScramble, LsfBadCrc, StreamLow, StreamHigh,
     StreamLast, EotFrame}
SideInputs == {LsfLocal, LsfOther, EotFrame, BadSyncFrame, ShortFrame}

\* The frames the modem sends: a status reply with status byte b, and D-Star
\* and DMR data with a one-byte payload.
ModemStatusFrame(b) == <<224, 0, 1, 1, b>>
StatusFrames == {ModemStatusFrame(b) : b \in {0, 4, 8, 12}}
ModemFrames == StatusFrames \cup {<<224, 0, 1, 32, 7>>, <<224, 0, 1, 34, 7>>}

\* The sets of modes for which a network has been created: in a run of the
\* host (create_network fails for M17), and for the arbiter on its own.
HostNetworkSets == {{"DSTAR"}, {"DSTAR", "DMR"}}
ArbiterNetworkSets == {{"DSTAR"}, {"DMR", "M17"}}

\* The decodings of the input frames, computed once: what LSF.decode returns
\* for data[2:] and what StreamFrame.decode returns for data.
Frames == RfInputs \cup SideInputs
LsfDecoded == [f \in Frames |-> LSF_decode(Slice(f, SYNC_LENGTH_BYTES, Len(f)))]
StreamDecoded == [f \in Frames |-> StreamFrame_decode(f)]

\* LSF.decode(data[SYNC_LENGTH_BYTES:]) and StreamFrame.decode(data) as the
\* handlers call them.
decode_lsf(data) ==
    IF data \in Frames THEN LsfDecoded[data]
    ELSE LSF_decode(Slice(data, SYNC_LENGTH_BYTES, Len(data)))
decode_stream(data) ==
    IF data \in Frames THEN StreamDecoded[data] ELSE StreamFrame_decode(data)

(***************************************************************************)
(* m17_lsf.py, class LICHReassembler: the six slots, each None or a        *)
(* fragment.  add_fragment returns [err, frags, lsf]: the exception, the   *)
(* slots after the call and the LSF returned (None: some = FALSE).         *)
(***************************************************************************)
LICHReassembler == [i \in 0..(NUM_LICH_FRAGMENTS - 1) |-> None]

RECURSIVE JoinFrom(_, _)
JoinFrom(frags, i) ==
    IF i >= NUM_LICH_FRAGMENTS THEN <<>> ELSE frags[i].v \o JoinFrom(frags, i + 1)

is_complete(frags) == \A i \in DOMAIN frags : frags[i].some

\* The byte strings whose 5-byte pieces are the fragments added to the
\* reassembler under test: a 30-byte LSF whose last two bytes are the CRC of
\* the first 28, the same with an illegal type byte (data type 0) and a
\* right CRC, and what LSF.encode returns.
LichLsf == MkLSF(LocalCallsign, ENC_NONE)
LichValid ==
    encode_crc16(Slice(LSF_fields(LichLsf), 0, LSF_LENGTH_BYTES - CRC_LENGTH_BYTES)).val
LichBadType ==
    encode_crc16(Slice([LSF_fields(LichLsf) EXCEPT ![13] = 0],
                       0, LSF_LENGTH_BYTES - CRC_LENGTH_BYTES)).val
LichEncoded == LSF_encode(LichLsf).val
LichSources == {LichValid, LichBadType, LichEncoded}
LichFragment(src, i) ==
    Slice(src, i * LSF_FRAGMENT_LENGTH_BYTES, (i + 1) * LSF_FRAGMENT_LENGTH_BYTES)
ShortFragment == <<1, 2, 3, 4>>

\* The concatenations of six such fragments, and their decodings, computed
\* once: what LSF.decode returns for b''.join(self._fragments).
LichJoins ==
    {JoinFrom([i \in 0..(NUM_LICH_FRAGMENTS - 1) |-> Some(LichFragment(f[i], i))], 0) :
        f \in [0..(NUM_LICH_FRAGMENTS - 1) -> LichSources]}
LichDecoded == [j \in LichJoins |-> LSF_decode(j)]
decode_joined(joined) ==
    IF joined \in LichJoins THEN LichDecoded[joined] ELSE LSF_decode(joined)

\* add_fragment returning nothing when the six fragments do not decode.
add_fragment_swallows(frags, fragment, index) ==
    IF Len(fragment) # LSF_FRAGMENT_LENGTH_BYTES
    THEN [err |-> "ValueError", frags |-> frags, lsf |-> [some |-> FALSE, v |-> NoLSF]]
    ELSE IF index < 0 \/ index >= NUM_LICH_FRAGMENTS
    THEN [err |-> "ValueError", frags |-> frags, lsf |-> [some |-> FALSE, v |-> NoLSF]]
    ELSE With([frags EXCEPT ![index] = Some(fragment)], LAMBDA stored :
             IF ~is_complete(stored)
             THEN [err |-> "", frags |-> stored, lsf |-> [some |-> FALSE, v |-> NoLSF]]
             ELSE With(decode_joined(JoinFrom(stored, 0)), LAMBDA d :
                      [err |-> "", frags |-> stored,
                       lsf |-> [some |-> d.err = "", v |-> d.lsf]]))

add_fragment(frags, fragment, index) ==
    IF Len(fragment) # LSF_FRAGMENT_LENGTH_BYTES
    THEN [err |-> "ValueError", frags |-> frags, lsf |-> [some |-> FALSE, v |-> NoLSF]]
    ELSE IF index < 0 \/ index >= NUM_LICH_FRAGMENTS
    THEN [err |-> "ValueError", frags |-> frags, lsf |-> [some |-> FALSE, v |-> NoLSF]]
    ELSE With([frags EXCEPT ![index] = Some(fragment)], LAMBDA stored :
             IF ~is_complete(stored)
             THEN [err |-> "", frags |-> stored, lsf |-> [some |-> FALSE, v |-> NoLSF]]
             ELSE With(decode_joined(JoinFrom(stored, 0)), LAMBDA d :
                      IF d.err # ""
                      THEN [err |-> "FragmentError", frags |-> stored,
                            lsf |-> [some |-> FALSE, v |-> NoLSF]]
                      ELSE [err |-> "", frags |-> stored,
                            lsf |-> [some |-> TRUE, v |-> d.lsf]]))

\* reset leaving the first slot filled.
reset_keeps_slot(frags) ==
    [LICHReassembler EXCEPT ![0] = Some(<<0, 0, 0, 0, 0>>)]

reset(frags) == LICHReassembler

(***************************************************************************)
(* m17_control.py, class M17Control.  c is the controller's fields, conn   *)
(* the value of network.is_connected() and t the value of time.time().     *)
(* A handler returns [ctl, out, err]: the fields after the call, the       *)
(* datagrams it hands to network.write, in order, and the exception that   *)
(* leaves it.                                                              *)
(***************************************************************************)
Ret(c, out, err) == [ctl |-> c, out |-> out, err |-> err]
Forwarded(c, conn, data) == IF c.has_network /\ conn THEN <<data>> ELSE <<>>

\* handle_rf_link_setup without the check of allow_encryption.
handle_rf_link_setup_any_encryption(c, conn, data, t) ==
    IF c.rf_state # "NONE" THEN Ret(c, <<>>, "")
    ELSE With(decode_lsf(data), LAMBDA d :
             IF d.err # "" THEN Ret(c, <<>>, d.err)
             ELSE IF c.self_only /\ d.lsf.dst_callsign # c.callsign THEN Ret(c, <<>>, "")
             ELSE Ret([c EXCEPT !.rf_state = "PROCESS", !.rf_timeout = t + c.tx_hang,
                                !.rf_frames = 0, !.rf_bits = 0, !.rf_errs = 0,
                                !.rf_lich = LICHReassembler],
                      Forwarded(c, conn, data), ""))

\* handle_rf_link_setup admitting a frame that LSF.decode rejects.
handle_rf_link_setup_any_crc(c, conn, data, t) ==
    IF c.rf_state # "NONE" THEN Ret(c, <<>>, "")
    ELSE With(decode_lsf(data), LAMBDA d :
             IF d.err = "" /\ c.self_only /\ d.lsf.dst_callsign # c.callsign
             THEN Ret(c, <<>>, "")
             ELSE IF d.err = "" /\ d.lsf.encryption_type # ENC_NONE /\ ~c.allow_encryption
             THEN Ret(c, <<>>, "")
             ELSE Ret([c EXCEPT !.rf_state = "PROCESS", !.rf_timeout = t + c.tx_hang,
                                !.rf_frames = 0, !.rf_bits = 0, !.rf_errs = 0,
                                !.rf_lich = LICHReassembler],
                      Forwarded(c, conn, data), ""))

handle_rf_link_setup(c, conn, data, t) ==
    IF c.rf_state # "NONE" THEN Ret(c, <<>>, "")
    ELSE With(decode_lsf(data), LAMBDA d :
             IF d.err # "" THEN Ret(c, <<>>, d.err)
             ELSE IF c.self_only /\ d.lsf.dst_callsign # c.callsign THEN Ret(c, <<>>, "")
             ELSE IF d.lsf.encryption_type # ENC_NONE /\ ~c.allow_encryption
             THEN Ret(c, <<>>, "")
             ELSE Ret([c EXCEPT !.rf_state = "PROCESS", !.rf_timeout = t + c.tx_hang,
                                !.rf_frames = 0, !.rf_bits = 0, !.rf_errs = 0,
                                !.rf_lich = LICHReassembler],
                      Forwarded(c, conn, data), ""))

\* rf_stream_accept without the forwarding of the frame.
rf_stream_accept_skips(c, conn, data, frame, t) ==
    Ret([c EXCEPT !.rf_frames = @ + 1,
                  !.rf_bits = @ + Len(frame.payload) * 8,
                  !.rf_last_frame = frame.frame_number,
                  !.rf_timeout = t + c.tx_hang],
        <<>>, "")

\* _handle_rf_stream from "Update statistics" on.
rf_stream_accept(c, conn, data, frame, t) ==
    Ret([c EXCEPT !.rf_frames = @ + 1,
                  !.rf_bits = @ + Len(frame.payload) * 8,
                  !.rf_last_frame = frame.frame_number,
                  !.rf_timeout = t + c.tx_hang],
        Forwarded(c, conn, data), "")

\* _handle_rf_stream once the frame is decoded: the LICH fragment, if any, is
\* added first, and an exception of add_fragment leaves the handler.
rf_stream_decoded(c, conn, data, frame, t) ==
    IF Truthy(frame.lich_fragment)
    THEN With(add_fragment(c.rf_lich, frame.lich_fragment.v, frame.frame_number),
              LAMBDA a :
                  IF a.err # "" THEN Ret([c EXCEPT !.rf_lich = a.frags], <<>>, a.err)
                  ELSE rf_stream_accept([c EXCEPT !.rf_lich = a.frags], conn, data,
                                        frame, t))
    ELSE rf_stream_accept(c, conn, data, frame, t)

handle_rf_stream(c, conn, data, t) ==
    IF c.rf_state # "PROCESS" THEN Ret(c, <<>>, "")
    ELSE With(decode_stream(data), LAMBDA d :
             IF d.err # "" THEN Ret(c, <<>>, d.err)
             ELSE rf_stream_decoded(c, conn, data, d.frame, t))

\* handle_rf_eot ending the transmission whatever the RF state.
handle_rf_eot_any_state(c, conn) ==
    Ret([c EXCEPT !.rf_state = "NONE", !.rf_lich = reset(c.rf_lich)],
        Forwarded(c, conn, EOT_SYNC), "")

handle_rf_eot(c, conn) ==
    IF c.rf_state # "PROCESS" THEN Ret(c, <<>>, "")
    ELSE Ret([c EXCEPT !.rf_state = "NONE", !.rf_lich = reset(c.rf_lich)],
             Forwarded(c, conn, EOT_SYNC), "")

\* handle_rf_timeout leaving the RF state at PROCESS.
handle_rf_timeout_stays(c, conn) ==
    IF c.rf_state # "PROCESS" THEN Ret(c, <<>>, "")
    ELSE Ret([c EXCEPT !.rf_lich = reset(c.rf_lich)], Forwarded(c, conn, EOT_SYNC), "")

handle_rf_timeout(c, conn) ==
    IF c.rf_state # "PROCESS" THEN Ret(c, <<>>, "")
    ELSE Ret([c EXCEPT !.rf_state = "NONE", !.rf_lich = reset(c.rf_lich)],
             Forwarded(c, conn, EOT_SYNC), "")

\* handle_net_link_setup without the check of self_only.
handle_net_link_setup_any_dst(c, data, t) ==
    IF c.net_state # "NONE" THEN Ret(c, <<>>, "")
    ELSE With(decode_lsf(data), LAMBDA d :
             IF d.err # "" THEN Ret(c, <<>>, d.err)
             ELSE IF d.lsf.encryption_type # ENC_NONE /\ ~c.allow_encryption
             THEN Ret(c, <<>>, "")
             ELSE Ret([c EXCEPT !.net_state = "PROCESS", !.net_timeout = t + c.tx_hang,
                                !.net_frames = 0, !.net_bits = 0, !.net_errs = 0,
                                !.net_lich = LICHReassembler],
                      <<>>, ""))

handle_net_link_setup(c, data, t) ==
    IF c.net_state # "NONE" THEN Ret(c, <<>>, "")
    ELSE With(decode_lsf(data), LAMBDA d :
             IF d.err # "" THEN Ret(c, <<>>, d.err)
             ELSE IF c.self_only /\ d.lsf.dst_callsign # c.callsign THEN Ret(c, <<>>, "")
             ELSE IF d.lsf.encryption_type # ENC_NONE /\ ~c.allow_encryption
             THEN Ret(c, <<>>, "")
             ELSE Ret([c EXCEPT !.net_state = "PROCESS", !.net_timeout = t + c.tx_hang,
                                !.net_frames = 0, !.net_bits = 0, !.net_errs = 0,
                                !.net_lich = LICHReassembler],
                      <<>>, ""))

\* _handle_net_stream from "Update statistics" on.
net_stream_accept(c, frame, t) ==
    Ret([c EXCEPT !.net_frames = @ + 1,
                  !.net_bits = @ + Len(frame.payload) * 8,
                  !.net_last_frame = frame.frame_number,
                  !.net_timeout = t + c.tx_hang],
        <<>>, "")

net_stream_decoded(c, frame, t) ==
    IF Truthy(frame.lich_fragment)
    THEN With(add_fragment(c.net_lich, frame.lich_fragment.v, frame.frame_number),
              LAMBDA a :
                  IF a.err # "" THEN Ret([c EXCEPT !.net_lich = a.frags], <<>>, a.err)
                  ELSE net_stream_accept([c EXCEPT !.net_lich = a.frags], frame, t))
    ELSE net_stream_accept(c, frame, t)

handle_net_stream(c, data, t) ==
    IF c.net_state # "PROCESS" THEN Ret(c, <<>>, "")
    ELSE With(decode_stream(data), LAMBDA d :
             IF d.err # "" THEN Ret(c, <<>>, d.err)
             ELSE net_stream_decoded(c, d.frame, t))

\* handle_net_eot ending the RF transmission as well.
handle_net_eot_ends_both(c) ==
    IF c.net_state # "PROCESS" THEN Ret(c, <<>>, "")
    ELSE Ret([c EXCEPT !.net_state = "NONE", !.net_lich = reset(c.net_lich),
                       !.rf_state = "NONE", !.rf_lich = reset(c.rf_lich)], <<>>, "")

handle_net_eot(c) ==
    IF c.net_state # "PROCESS" THEN Ret(c, <<>>, "")
    ELSE Ret([c EXCEPT !.net_state = "NONE", !.net_lich = reset(c.net_lich)], <<>>, "")

\* handle_net_timeout writing the EOT sentinel as the RF side does.
handle_net_timeout_emits(c) ==
    IF c.net_state # "PROCESS" THEN Ret(c, <<>>, "")
    ELSE Ret([c EXCEPT !.net_state = "NONE", !.net_lich = reset(c.net_lich)],
             <<EOT_SYNC>>, "")

handle_net_timeout(c) ==
    IF c.net_state # "PROCESS" THEN Ret(c, <<>>, "")
    ELSE Ret([c EXCEPT !.net_state = "NONE", !.net_lich = reset(c.net_lich)], <<>>, "")

\* process_rf_frame taking a frame with an unknown sync for an end of
\* transmission.
process_rf_frame_unknown_ends(c, conn, data, t) ==
    LET sync == Slice(data, 0, SYNC_LENGTH_BYTES)
    IN  IF sync = LINK_SETUP_SYNC THEN handle_rf_link_setup(c, conn, data, t)
        ELSE IF sync = STREAM_SYNC THEN handle_rf_stream(c, conn, data, t)
        ELSE handle_rf_eot(c, conn)

\* process_rf_data after the frame has been taken from the queue.
process_rf_frame(c, conn, data, t) ==
    LET sync == Slice(data, 0, SYNC_LENGTH_BYTES)
    IN  IF sync = LINK_SETUP_SYNC THEN handle_rf_link_setup(c, conn, data, t)
        ELSE IF sync = STREAM_SYNC THEN handle_rf_stream(c, conn, data, t)
        ELSE IF sync = EOT_SYNC THEN handle_rf_eot(c, conn)
        ELSE Ret(c, <<>>, "")

process_network_frame(c, data, t) ==
    LET sync == Slice(data, 0, SYNC_LENGTH_BYTES)
    IN  IF sync = LINK_SETUP_SYNC THEN handle_net_link_setup(c, data, t)
        ELSE IF sync = STREAM_SYNC THEN handle_net_stream(c, data, t)
        ELSE IF sync = EOT_SYNC THEN handle_net_eot(c)
        ELSE Ret(c, <<>>, "")

\* clock(ms), the transmit watchdog.
clock_watchdog(c, ms) ==
    IF c.tx_watchdog > 0
    THEN IF c.tx_watchdog - ms <= 0
         THEN [c EXCEPT !.tx_watchdog = @ - ms, !.rf_state = "NONE", !.net_state = "NONE"]
         ELSE [c EXCEPT !.tx_watchdog = @ - ms]
    ELSE c

\* clock(ms), the network-side timeout.
clock_net(c, t) ==
    IF c.net_state = "PROCESS" /\ t >= c.net_timeout
    THEN handle_net_timeout(c) ELSE Ret(c, <<>>, "")

\* clock(ms), the RF-side timeout.
clock_rf(c, conn, t) ==
    IF c.rf_state = "PROCESS" /\ t >= c.rf_timeout
    THEN handle_rf_timeout(c, conn) ELSE Ret(c, <<>>, "")

\* clock(ms): the two per-side timeouts, then the transmit watchdog.
clock(c, conn, ms, t) ==
    With(clock_rf(c, conn, t), LAMBDA r1 :
        With(clock_net(r1.ctl, t), LAMBDA r2 :
            Ret(clock_watchdog(r2.ctl, ms), r1.out \o r2.out, "")))

(***************************************************************************)
(* modem.py.  A RingBuffer is the sequence of bytes it holds.  md is the   *)
(* modem's fields: the status flags and rx, the receive ring buffers by    *)
(* name (rx_dstar is rx["dstar"]).                                         *)
(***************************************************************************)
RingSize == 3000

RingBuffer_write(buf, data) ==
    IF Len(buf) + Len(data) <= RingSize THEN [ok |-> TRUE, buf |-> buf \o data]
    ELSE [ok |-> FALSE, buf |-> buf \o SubSeq(data, 1, RingSize - Len(buf))]

RingBuffer_read(buf, count) ==
    [data |-> SubSeq(buf, 1, Min(count, Len(buf))),
     buf |-> SubSeq(buf, Min(count, Len(buf)) + 1, Len(buf))]

RxNames == {"dstar", "dmr1", "dmr2", "ysf", "p25", "nxdn", "m17", "fm", "ax25"}

\* The modem after open(): conn tells that the connection is open,
\* rx_thread is the worker's position as for the network endpoint.
Modem ==
    [tx |-> FALSE, cd |-> FALSE, lockout |-> FALSE, error |-> FALSE,
     rx |-> [b \in RxNames |-> <<>>],
     running |-> TRUE, conn |-> TRUE, rx_thread |-> "loop",
     state |-> "START", buffer |-> <<>>, length |-> 0, offset |-> 0, type |-> 0]

\* The modem after construction.
NewModem == [Modem EXCEPT !.running = FALSE, !.conn = FALSE, !.rx_thread = "none"]

\* open: outcome is "no_conn" (serial.Serial or socket.bind raised) or "ok".
modem_open(md, outcome) ==
    IF outcome = "no_conn" THEN md
    ELSE [md EXCEPT !.conn = TRUE, !.running = TRUE, !.rx_thread = "loop"]

\* Bit k (a power of two) of byte b is set.
BitSet(b, k) == (b \div k) % 2 = 1

\* _process_frame for frames of at least five bytes that are not
\* Get Version replies: frame[3] is the type, frame[4:] the payload.
process_frame(md, frame) ==
    IF Len(frame) < 4 THEN md
    ELSE IF frame[4] = 1
    THEN [md EXCEPT !.tx = BitSet(frame[5], 1), !.cd = BitSet(frame[5], 2),
                    !.lockout = BitSet(frame[5], 4), !.error = BitSet(frame[5], 8)]
    ELSE IF frame[4] \in {32, 33}
    THEN [md EXCEPT !.rx["dstar"] = RingBuffer_write(@, Slice(frame, 4, Len(frame))).buf]
    ELSE IF frame[4] = 34
    THEN [md EXCEPT !.rx["dmr1"] = RingBuffer_write(@, Slice(frame, 4, Len(frame))).buf]
    ELSE IF frame[4] = 35
    THEN [md EXCEPT !.rx["dmr2"] = RingBuffer_write(@, Slice(frame, 4, Len(frame))).buf]
    ELSE md

\* The values of the enum HardwareType.
HardwareTypes == 0..11

\* _process_frame raises: an index past the end of the frame (IndexError),
\* or a hardware id that is no member of HardwareType (ValueError).
process_frame_raises(frame) ==
    /\ Len(frame) >= 4
    /\ \/ frame[4] = 0 /\ (Len(frame) < 7 \/ frame[6] \notin HardwareTypes)
       \/ frame[4] = 1 /\ Len(frame) < 5

\* The framer hands its buffer to _process_frame and, unless that raises,
\* goes back to START: [md, raised, out], out the frames handed over.
dispatch(md) ==
    IF process_frame_raises(md.buffer)
    THEN [md |-> md, raised |-> TRUE, out |-> <<md.buffer>>]
    ELSE [md |-> [process_frame(md, md.buffer) EXCEPT !.state = "START"],
          raised |-> FALSE, out |-> <<md.buffer>>]

Consumed(md) == [md |-> md, raised |-> FALSE, out |-> <<>>]

\* The body of the loop of _process_data for one byte.
process_byte(md, byte) ==
    IF md.state = "START"
    THEN IF byte = 224
         THEN Consumed([md EXCEPT !.buffer = <<byte>>, !.length = 0, !.offset = 0,
                                  !.state = "LENGTH1"])
         ELSE Consumed(md)
    ELSE IF md.state = "LENGTH1"
    THEN Consumed([md EXCEPT !.length = byte * 256, !.buffer = Append(@, byte),
                             !.state = "LENGTH2"])
    ELSE IF md.state = "LENGTH2"
    THEN Consumed([md EXCEPT !.length = (@ \div 256) * 256 + byte, !.buffer = Append(@, byte),
                             !.state = "TYPE"])
    ELSE IF md.state = "TYPE"
    THEN IF md.length > 0
         THEN Consumed([md EXCEPT !.type = byte, !.buffer = Append(@, byte), !.state = "DATA"])
         ELSE dispatch([md EXCEPT !.type = byte, !.buffer = Append(@, byte)])
    ELSE IF md.offset + 1 >= md.length
         THEN dispatch([md EXCEPT !.buffer = Append(@, byte), !.offset = @ + 1])
         ELSE Consumed([md EXCEPT !.buffer = Append(@, byte), !.offset = @ + 1])

\* _process_data(data) from the framer's fields in st.md: the loop over the
\* bytes, left at the first byte whose frame makes _process_frame raise.
RECURSIVE process_data_loop(_, _)
process_data_loop(st, data) ==
    IF data = <<>> \/ st.raised THEN st
    ELSE With(process_byte(st.md, Head(data)), LAMBDA r :
             process_data_loop([md |-> r.md, raised |-> r.raised, out |-> st.out \o r.out],
                               Tail(data)))

process_data(md, data) == process_data_loop(Consumed(md), data)

\* A Python value compared with ==: a str, or a member of the enum Mode.  A
\* member of Mode is equal to no str.
Str(name) == [type |-> "str", v |-> name]
ModeMember(name) == [type |-> "Mode", v |-> name]

\* The branches of read_mode_data: the str compared with, the ring buffer
\* read and the number of bytes asked for.
ReadBranches ==
    [DSTAR |-> [buf |-> "dstar", count |-> 200], DMR1 |-> [buf |-> "dmr1", count |-> 33],
     DMR2 |-> [buf |-> "dmr2", count |-> 33], YSF |-> [buf |-> "ysf", count |-> 130],
     P25 |-> [buf |-> "p25", count |-> 35], NXDN |-> [buf |-> "nxdn", count |-> 25],
     M17 |-> [buf |-> "m17", count |-> 25], FM |-> [buf |-> "fm", count |-> 200],
     AX25 |-> [buf |-> "ax25", count |-> 300]]

\* read_mode_data(mode): [modem, data], the modem's fields after the call and
\* the Optional[bytes] returned.
read_mode_data(md, key) ==
    IF \E name \in DOMAIN ReadBranches : key = Str(name)
    THEN With(ReadBranches[key.v], LAMBDA br :
             IF Len(md.rx[br.buf]) > 0
             THEN With(RingBuffer_read(md.rx[br.buf], br.count), LAMBDA r :
                      [modem |-> [md EXCEPT !.rx[br.buf] = r.buf], data |-> Some(r.data)])
             ELSE [modem |-> md, data |-> None])
    ELSE [modem |-> md, data |-> None]

(***************************************************************************)
(* mmdvm_host.py.  A mode is the name of a member of the enum Mode; h is   *)
(* the host's fields: mode, mode_timer and networks (the modes that have   *)
(* an entry in self.networks).  t is the value of time.time().             *)
(***************************************************************************)
ModeOrder ==
    <<"IDLE", "DSTAR", "DMR", "YSF", "P25", "NXDN", "M17", "POCSAG", "FM", "AX25",
      "LOCKOUT", "ERROR">>

TrafficModes == {"DSTAR", "DMR", "YSF", "P25", "NXDN", "M17", "POCSAG", "FM", "AX25"}

Timer == [running |-> FALSE, timeout |-> 0, start_time |-> 0]
Timer_start(tm, t) == [tm EXCEPT !.running = TRUE, !.start_time = t]
Timer_stop(tm) == [tm EXCEPT !.running = FALSE]
Timer_setTimeout(tm, timeout, t) == Timer_start([tm EXCEPT !.timeout = timeout], t)
Timer_hasExpired(tm, t) == tm.running /\ (t - tm.start_time) >= tm.timeout

MMDVMHost(nets) == [mode |-> "IDLE", mode_timer |-> Timer, networks |-> nets]

\* set_mode leaving the mode timer running on the way to IDLE.
set_mode_keeps_timer(h, m) ==
    IF m = h.mode THEN h ELSE [h EXCEPT !.mode = m]

set_mode(h, m) ==
    IF m = h.mode THEN h
    ELSE IF m = "IDLE" THEN [h EXCEPT !.mode = m, !.mode_timer = Timer_stop(@)]
    ELSE [h EXCEPT !.mode = m]

\* The modes for which the loop of process_modem_data reaches the call of
\* read_mode_data, in the order of the loop.
LoopModes(h) ==
    SelectSeq(ModeOrder, LAMBDA m : m \notin {"LOCKOUT", "ERROR", "IDLE"}
                                    /\ m \in h.networks)

\* One pass of the loop of process_modem_data for mode m, after
\* read_mode_data has returned data: [host, wrote], the host's fields after
\* the pass and whether networks[m].write_modem(data) was called.  accept is
\* what write_modem returns and hang what config.getint(m, 'RFModeHang')
\* returns.
process_mode_forwards_other(h, m, data, accept, hang, t) ==
    IF ~Truthy(data) THEN [host |-> h, wrote |-> FALSE]
    ELSE IF h.mode = "IDLE"
    THEN [host |-> IF accept
                   THEN set_mode([h EXCEPT !.mode_timer = Timer_setTimeout(@, hang, t)], m)
                   ELSE h,
          wrote |-> TRUE]
    ELSE IF h.mode = m
    THEN [host |-> IF accept THEN [h EXCEPT !.mode_timer = Timer_start(@, t)] ELSE h,
          wrote |-> TRUE]
    ELSE [host |-> h, wrote |-> TRUE]

process_mode_from_any(h, m, data, accept, hang, t) ==
    IF ~Truthy(data) THEN [host |-> h, wrote |-> FALSE]
    ELSE IF h.mode = "IDLE" \/ h.mode # m
    THEN [host |-> IF accept
                   THEN set_mode([h EXCEPT !.mode_timer = Timer_setTimeout(@, hang, t)], m)
                   ELSE h,
          wrote |-> TRUE]
    ELSE [host |-> IF accept THEN [h EXCEPT !.mode_timer = Timer_start(@, t)] ELSE h,
          wrote |-> TRUE]

process_mode(h, m, data, accept, hang, t) ==
    IF ~Truthy(data) THEN [host |-> h, wrote |-> FALSE]
    ELSE IF h.mode = "IDLE"
    THEN [host |-> IF accept
                   THEN set_mode([h EXCEPT !.mode_timer = Timer_setTimeout(@, hang, t)], m)
                   ELSE h,
          wrote |-> TRUE]
    ELSE IF h.mode = m
    THEN [host |-> IF accept THEN [h EXCEPT !.mode_timer = Timer_start(@, t)] ELSE h,
          wrote |-> TRUE]
    ELSE [host |-> h, wrote |-> FALSE]

\* The main loop of run: the lockout check, the error check and the timer
\* check.
check_lockout(h, md) ==
    IF md.lockout /\ h.mode # "LOCKOUT" THEN set_mode(h, "LOCKOUT")
    ELSE IF ~md.lockout /\ h.mode = "LOCKOUT" THEN set_mode(h, "IDLE")
    ELSE h

check_error(h, md) ==
    IF md.error /\ h.mode # "ERROR" THEN set_mode(h, "ERROR")
    ELSE IF ~md.error /\ h.mode = "ERROR" THEN set_mode(h, "IDLE")
    ELSE h

check_timers(h, t) ==
    IF Timer_hasExpired(h.mode_timer, t) THEN set_mode(h, "IDLE") ELSE h

(***************************************************************************)
(* State.  ctl: the M17Control object; net: its M17Network; now: the clock *)
(* read by time.time(), in seconds; last: the last call made on the        *)
(* controller: the method, the frame it was given (for process_*_data the  *)
(* frame it took from the queue), the value returned by a write_* call,    *)
(* the exception that left the call ("" for none), the datagrams the call *)
(* handed to socket.sendto through M17Network.write, in order, and n, the  *)
(* parity of the number of calls of that method in a row.                  *)
(* host: the MMDVMHost object; modem: its Modem; pc: the statement of the  *)
(* main loop of run that is executed next (for the loop of                 *)
(* process_modem_data, the index of its next pass); hlast: the last        *)
(* statement of the main loop that was executed: for a pass of             *)
(* process_modem_data its mode, the data read_mode_data returned, whether  *)
(* write_modem was called and whether it accepted.  asserted: for the     *)
(* lockout and the error signal of the modem, whether the mode has become  *)
(* LOCKOUT (ERROR) on that signal and the signal has stayed asserted       *)
(* since.  codec: the last call made on the codec (m17_crc.py,             *)
(* m17_lsf.py) on its own: the function, its argument and its result, and  *)
(* frags, the LICHReassembler the calls of add_fragment and reset act on.  *)
(***************************************************************************)
VARIABLES ctl, net, now, last, host, modem, pc, hlast, asserted, codec

vars == <<ctl, net, now, last, host, modem, pc, hlast, asserted, codec>>
ctlVars == <<ctl, net, last>>
hostVars == <<host, modem, pc, hlast, asserted, codec>>

M17Control(self_only, allow_encryption, has_network) ==
    [callsign |-> LocalCallsign, can |-> 1, self_only |-> self_only,
     allow_encryption |-> allow_encryption, tx_hang |-> TxHang,
     has_network |-> has_network,
     rf_state |-> "NONE", net_state |-> "NONE", rf_timeout |-> 0, net_timeout |-> 0,
     rf_frames |-> 0, net_frames |-> 0, rf_bits |-> 0, net_bits |-> 0,
     rf_errs |-> 0, net_errs |-> 0, rf_last_frame |-> 0, net_last_frame |-> 0,
     tx_watchdog |-> 0, rf_lich |-> LICHReassembler, net_lich |-> LICHReassembler,
     rf_data |-> <<>>, net_data |-> <<>>]

\* The endpoint after construction and open(): the socket is bound and the
\* receive worker runs.
M17Network ==
    [socket |-> TRUE, enabled |-> FALSE, connected |-> FALSE, running |-> TRUE,
     buffer |-> <<>>, last_ping |-> 0, out_id |-> 4660, rx_thread |-> "loop"]

\* The endpoint is attached to the controller, connected and enabled.
NetUp == ctl.has_network /\ net.connected /\ net.enabled /\ net.socket

NoCall == [op |-> "init", data |-> <<>>, ret |-> "None", err |-> "", out |-> <<>>, n |-> 0]

Call(op, data, ret, err, out) ==
    [op |-> op, data |-> data, ret |-> ret, err |-> err, out |-> out,
     n |-> IF last.op = op THEN 1 - last.n ELSE 0]

HCall(op, m, data, wrote, accepted) ==
    [op |-> op, m |-> m, data |-> data, wrote |-> wrote, accepted |-> accepted]

\* The controller and its endpoint after construction, for every setting of
\* self_only and allow_encryption, with and without an endpoint.
CtlInit ==
    /\ \E so \in BOOLEAN, ae \in BOOLEAN, hn \in BOOLEAN : ctl = M17Control(so, ae, hn)
    /\ net = M17Network
    /\ last = NoCall

\* No call of the codec has been made; the reassembler is as constructed.
NoCodec ==
    [op |-> "init", arg |-> <<>>, res |-> <<>>, frags |-> LICHReassembler, n |-> 0]

\* A call of the codec: n is the parity of the number of calls of that
\* function in a row.
CodecCall(op, arg, res, frags) ==
    [op |-> op, arg |-> arg, res |-> res, frags |-> frags,
     n |-> IF codec.op = op THEN 1 - codec.n ELSE 0]

\* The host after construction, its modem opened, with the networks nets
\* created, at the top of the main loop.
HostInit(nets) ==
    /\ host = MMDVMHost(nets)
    /\ modem = Modem
    /\ pc = [at |-> "lockout", i |-> 0]
    /\ hlast = HCall("init", "IDLE", None, FALSE, FALSE)
    /\ asserted = [lockout |-> FALSE, error |-> FALSE]
    /\ codec = NoCodec

\* write_rf_data replacing the queued frame by the new one.
WriteRfData_overwrites(data) ==
    /\ ctl.rf_frames < MaxTxFrames
    /\ IF Len(data) # FRAME_LENGTH_BYTES
       THEN ctl' = ctl /\ last' = Call("write_rf_data", data, "False", "", <<>>)
       ELSE /\ ctl' = [ctl EXCEPT !.rf_data = <<data>>]
            /\ last' = Call("write_rf_data", data, "True", "", <<>>)
    /\ UNCHANGED <<net, now, hostVars>>

\* write_rf_data(data)
WriteRfData(data) ==
    /\ ctl.rf_frames < MaxTxFrames
    /\ IF Len(data) # FRAME_LENGTH_BYTES \/ Len(ctl.rf_data) >= 1
       THEN ctl' = ctl /\ last' = Call("write_rf_data", data, "False", "", <<>>)
       ELSE /\ ctl' = [ctl EXCEPT !.rf_data = <<data>>]
            /\ last' = Call("write_rf_data", data, "True", "", <<>>)
    /\ UNCHANGED <<net, now, hostVars>>

\* write_network_data(data)
WriteNetworkData(data) ==
    /\ ctl.net_frames < MaxTxFrames
    /\ IF Len(data) # FRAME_LENGTH_BYTES \/ Len(ctl.net_data) >= 1
       THEN ctl' = ctl /\ last' = Call("write_network_data", data, "False", "", <<>>)
       ELSE /\ ctl' = [ctl EXCEPT !.net_data = <<data>>]
            /\ last' = Call("write_network_data", data, "True", "", <<>>)
    /\ UNCHANGED <<net, now, hostVars>>

\* process_rf_data()
ProcessRfData ==
    /\ IF ctl.rf_data = <<>>
       THEN ctl' = ctl /\ last' = Call("process_rf_data", <<>>, "None", "", <<>>)
       ELSE \E r \in {process_rf_frame([ctl EXCEPT !.rf_data = <<>>], net.connected,
                                        Head(ctl.rf_data), now)} :
                /\ ctl' = r.ctl
                /\ last' = Call("process_rf_data", Head(ctl.rf_data), "None", r.err,
                                net_write_all(net, r.out))
    /\ UNCHANGED <<net, now, hostVars>>

\* process_network_data()
ProcessNetworkData ==
    /\ IF ctl.net_data = <<>>
       THEN ctl' = ctl /\ last' = Call("process_network_data", <<>>, "None", "", <<>>)
       ELSE \E r \in {process_network_frame([ctl EXCEPT !.net_data = <<>>],
                                             Head(ctl.net_data), now)} :
                /\ ctl' = r.ctl
                /\ last' = Call("process_network_data", Head(ctl.net_data), "None",
                                r.err, net_write_all(net, r.out))
    /\ UNCHANGED <<net, now, hostVars>>

\* clock(ms)
Clock(ms) ==
    /\ \E r \in {clock(ctl, net.connected, ms, now)} :
           /\ ctl' = r.ctl
           /\ last' = Call("clock", <<>>, "None", r.err, net_write_all(net, r.out))
    /\ UNCHANGED <<net, now, hostVars>>

\* One second passes.
Tick ==
    /\ now < MaxNow
    /\ now' = now + 1
    /\ UNCHANGED <<ctlVars, hostVars>>

\* network.enable(enabled)
NetEnable(enabled) ==
    /\ ctl.has_network
    /\ net' = net_enable(net, enabled)
    /\ net' # net
    /\ UNCHANGED <<ctl, now, last, hostVars>>

\* The receive worker receives a ping response from the gateway.
RxPing ==
    /\ ctl.has_network /\ net.running /\ net.socket
    /\ net' = rx_loop_datagram(net, <<0>>, TRUE)
    /\ net' # net
    /\ UNCHANGED <<ctl, now, last, hostVars>>

\* The main loop of run, lines 115-118.
CheckLockout ==
    /\ pc.at = "lockout"
    /\ host' = check_lockout(host, modem)
    /\ pc' = [at |-> "error", i |-> 0]
    /\ hlast' = HCall("lockout", host'.mode, None, FALSE, FALSE)
    /\ asserted' = [asserted EXCEPT
                       !.lockout = @ \/ (host.mode # "LOCKOUT" /\ host'.mode = "LOCKOUT")]
    /\ UNCHANGED <<ctlVars, now, modem, codec>>

\* The main loop of run, lines 120-123; process_modem_data is called next.
CheckError ==
    /\ pc.at = "error"
    /\ host' = check_error(host, modem)
    /\ pc' = IF LoopModes(host) = <<>> THEN [at |-> "timer", i |-> 0]
             ELSE [at |-> "data", i |-> 1]
    /\ hlast' = HCall("error", host'.mode, None, FALSE, FALSE)
    /\ asserted' = [asserted EXCEPT
                       !.error = @ \/ (host.mode # "ERROR" /\ host'.mode = "ERROR")]
    /\ UNCHANGED <<ctlVars, now, modem, codec>>

\* The position after pass i of the loop of process_modem_data.
AfterPass(h, i) ==
    IF i >= Len(LoopModes(h)) THEN [at |-> "timer", i |-> 0] ELSE [at |-> "data", i |-> i + 1]

\* One pass of the loop of process_modem_data: read_mode_data is called with
\* the member of Mode, as line 187 does.
ProcessModemData(accept) ==
    /\ pc.at = "data"
    /\ \E r \in {read_mode_data(modem, ModeMember(LoopModes(host)[pc.i]))} :
           \E q \in {process_mode(host, LoopModes(host)[pc.i], r.data, accept,
                                  RFModeHang, now)} :
               /\ modem' = r.modem
               /\ host' = q.host
               /\ hlast' = HCall("data", LoopModes(host)[pc.i], r.data, q.wrote,
                                 q.wrote /\ accept)
    /\ pc' = AfterPass(host, pc.i)
    /\ UNCHANGED <<ctlVars, now, asserted, codec>>

\* One pass of the loop of process_modem_data in which read_mode_data
\* returns data (None, or the bytes read).
ProcessModeData(data, accept) ==
    /\ pc.at = "data"
    /\ \E q \in {process_mode(host, LoopModes(host)[pc.i], data, accept,
                              RFModeHang, now)} :
           /\ host' = q.host
           /\ hlast' = HCall("data", LoopModes(host)[pc.i], data, q.wrote,
                             q.wrote /\ accept)
    /\ pc' = AfterPass(host, pc.i)
    /\ UNCHANGED <<ctlVars, now, modem, asserted, codec>>

\* The main loop of run, lines 129-130.
CheckTimers ==
    /\ pc.at = "timer"
    /\ host' = check_timers(host, now)
    /\ pc' = [at |-> "lockout", i |-> 0]
    /\ hlast' = HCall("timer", host'.mode, None, FALSE, FALSE)
    /\ UNCHANGED <<ctlVars, now, modem, asserted, codec>>

\* The modem's receive worker hands a complete frame to _process_frame.
ModemFrame(frame) ==
    /\ \A b \in RxNames : Len(modem.rx[b]) < MaxRx
    /\ modem' = process_frame(modem, frame)
    /\ modem' # modem
    /\ asserted' = [lockout |-> asserted.lockout /\ modem'.lockout,
                    error |-> asserted.error /\ modem'.error]
    /\ UNCHANGED <<ctlVars, now, host, pc, hlast, codec>>

(***************************************************************************)
(* Spec: the RF side of the controller and its network endpoint.           *)
(***************************************************************************)
Init == CtlInit /\ now = 0 /\ HostInit({})

Next ==
    \/ \E data \in RfInputs : WriteRfData(data)
    \/ ProcessRfData
    \/ Clock(1000)
    \/ Tick
    \/ \E b \in BOOLEAN : NetEnable(b)
    \/ RxPing

Spec == Init /\ [][Next]_vars

(***************************************************************************)
(* SpecSides: both sides of the controller, fed link setup and end of      *)
(* transmission frames, with the endpoint connected and enabled.           *)
(***************************************************************************)
InitSides ==
    /\ \E so \in BOOLEAN, ae \in BOOLEAN : ctl = M17Control(so, ae, TRUE)
    /\ net = [M17Network EXCEPT !.enabled = TRUE, !.connected = TRUE]
    /\ last = NoCall
    /\ now = 0
    /\ HostInit({})

NextSides ==
    \/ \E data \in SideInputs : WriteRfData(data)
    \/ ProcessRfData
    \/ \E data \in SideInputs : WriteNetworkData(data)
    \/ ProcessNetworkData

SpecSides == InitSides /\ [][NextSides]_vars

(***************************************************************************)
(* SpecHost: the main loop of the host with its modem.  SpecArbiter: the   *)
(* main loop with what read_mode_data returns as an input.                 *)
(***************************************************************************)
InitHost ==
    /\ ctl = M17Control(FALSE, FALSE, FALSE)
    /\ net = M17Network
    /\ last = NoCall
    /\ now = 0
    /\ \E nets \in HostNetworkSets : HostInit(nets)

InitArbiter ==
    /\ ctl = M17Control(FALSE, FALSE, FALSE)
    /\ net = M17Network
    /\ last = NoCall
    /\ now = 0
    /\ \E nets \in ArbiterNetworkSets : HostInit(nets)

NextHost ==
    \/ CheckLockout
    \/ CheckError
    \/ \E accept \in BOOLEAN : ProcessModemData(accept)
    \/ CheckTimers
    \/ \E frame \in ModemFrames : ModemFrame(frame)
    \/ Tick

SpecHost == InitHost /\ [][NextHost]_vars

NextArbiter ==
    \/ CheckLockout
    \/ CheckError
    \/ \E data \in {None, Some(<<1>>)}, accept \in BOOLEAN : ProcessModeData(data, accept)
    \/ CheckTimers
    \/ \E frame \in StatusFrames : ModemFrame(frame)
    \/ Tick

SpecArbiter == InitArbiter /\ [][NextArbiter]_vars

\* The main loop of run goes round for as long as the host is not killed:
\* each of its statements, once reached, is executed.
SpecArbiterFair ==
    /\ SpecArbiter
    /\ WF_vars(CheckLockout)
    /\ WF_vars(CheckError)
    /\ WF_vars(\E data \in {None, Some(<<1>>)}, accept \in BOOLEAN : ProcessModeData(data, accept))
    /\ WF_vars(CheckTimers)
(***************************************************************************)
(* SpecLich: a LICHReassembler on its own, fed the fragments of the byte   *)
(* strings of LichSources, each at its index, and ill-formed arguments.    *)
(***************************************************************************)
\* rf_lich.add_fragment(fragment, index) on the reassembler under test.
AddFragment(fragment, index) ==
    /\ \E r \in {add_fragment(codec.frags, fragment, index)} :
           codec' = CodecCall("add_fragment", <<fragment, index>>,
                              [err |-> r.err, lsf |-> r.lsf], r.frags)
    /\ UNCHANGED <<ctlVars, now, host, modem, pc, hlast, asserted>>

\* reset() on the reassembler under test.
ResetFragments ==
    /\ codec' = CodecCall("reset", <<>>, <<>>, reset(codec.frags))
    /\ UNCHANGED <<ctlVars, now, host, modem, pc, hlast, asserted>>

NextLich ==
    \/ \E src \in LichSources, i \in 0..(NUM_LICH_FRAGMENTS - 1) :
           AddFragment(LichFragment(src, i), i)
    \/ AddFragment(LichFragment(LichValid, 0), NUM_LICH_FRAGMENTS)
    \/ AddFragment(ShortFragment, 0)
    \/ ResetFragments

InitLich ==
    /\ ctl = M17Control(FALSE, FALSE, FALSE)
    /\ net = M17Network
    /\ last = NoCall
    /\ now = 0
    /\ HostInit({})

SpecLich == InitLich /\ [][NextLich]_vars

(***************************************************************************)
(* SpecCodec: the pure functions of m17_crc.py and m17_lsf.py, each        *)
(* applied once to an argument drawn from a bounded set.  The initial      *)
(* state holds the argument; the one step applies the function to it.      *)
(***************************************************************************)
MaxBytes == 4

CodecCallsigns == {<<65>>, <<57, 90, 48>>, <<65, 66, 67, 68, 69, 70>>}
CodecCans == {0, 258, 65535}
LsfInputs ==
    [dst_callsign : CodecCallsigns, src_callsign : {<<67, 68>>, <<81, 50, 88, 89, 55, 87>>},
     can : CodecCans, packet_type : PacketType, data_type : DataType,
     encryption_type : EncryptionType, encryption_subtype : EncryptionSubType,
     nonce : {NULL_NONCE}]

StreamInputs ==
    [frame_number : {0, 5, 6, 32767}, payload : {<<>>, <<7, 8, 9>>, Payload},
     lich_fragment : {None, Some(<<1, 2, 3, 4, 5>>)}, is_last : BOOLEAN]

\* Byte strings of up to MaxBytes bytes, and two of the lengths an LSF has
\* before its CRC is appended.
BytesInputs ==
    UNION {[1..k -> {0, 165, 255}] : k \in 0..MaxBytes}
    \cup {Slice(LichValid, 0, k) : k \in {LSF_LENGTH_BYTES - CRC_LENGTH_BYTES - 1,
                                         LSF_LENGTH_BYTES - CRC_LENGTH_BYTES}}

\* Arguments of LSF.decode: a 30-byte LSF with a right CRC, alone and
\* followed by the padding of a 48-byte frame, what LSF.encode returns, and
\* the rest of the LINK_SETUP frames of Frames after their sync word.
LsfBytesInputs ==
    {LichValid, LichValid \o Zeros(FRAME_LENGTH_BYTES - SYNC_LENGTH_BYTES - LSF_LENGTH_BYTES),
     LichEncoded, LichBadType,
     Slice(LsfLocal, SYNC_LENGTH_BYTES, FRAME_LENGTH_BYTES),
     Slice(LsfBadCrc, SYNC_LENGTH_BYTES, FRAME_LENGTH_BYTES)}

\* The initial value of codec for an argument x of the given kind.
CodecInput(kind, x) == [NoCodec EXCEPT !.op = "input", !.arg = [kind |-> kind, v |-> x]]

Applied(op, res) ==
    /\ codec' = [op |-> op, arg |-> codec.arg.v, res |-> res, frags |-> codec.frags, n |-> 0]
    /\ UNCHANGED <<ctlVars, now, host, modem, pc, hlast, asserted>>

NotCalled == [err |-> "not called"]

\* LSF.decode(lsf.encode()).
LsfRoundTrip ==
    /\ codec.op = "input" /\ codec.arg.kind = "lsf"
    /\ \E e \in {LSF_encode(codec.arg.v)} :
           Applied("LSF.encode", [enc |-> e,
                                  dec |-> IF e.err = "" THEN LSF_decode(e.val) ELSE NotCalled])

\* LSF.decode(data).
LsfDecode ==
    /\ codec.op = "input" /\ codec.arg.kind = "lsf_bytes"
    /\ Applied("LSF.decode", LSF_decode(codec.arg.v))

\* StreamFrame.decode(frame.encode()).
StreamRoundTrip ==
    /\ codec.op = "input" /\ codec.arg.kind = "stream"
    /\ \E e \in {StreamFrame_encode(codec.arg.v)} :
           Applied("StreamFrame.encode",
                   [enc |-> e,
                    dec |-> IF e.err = "" THEN StreamFrame_decode(e.val) ELSE NotCalled])

\* create_crc16(data), encode_crc16(data), check_crc16(encode_crc16(data))
\* and check_crc16(data).
CrcRoundTrip ==
    /\ codec.op = "input" /\ codec.arg.kind = "bytes"
    /\ \E e \in {encode_crc16(codec.arg.v)} :
           Applied("encode_crc16",
                   [crc |-> create_crc16(codec.arg.v), enc |-> e,
                    chk |-> IF e.err = "" THEN check_crc16(e.val) ELSE NotCalled,
                    raw |-> check_crc16(codec.arg.v)])

NextCodec == LsfRoundTrip \/ LsfDecode \/ StreamRoundTrip \/ CrcRoundTrip

InitCodec ==
    /\ ctl = M17Control(FALSE, FALSE, FALSE)
    /\ net = M17Network
    /\ last = NoCall
    /\ now = 0
    /\ host = MMDVMHost({})
    /\ modem = Modem
    /\ pc = [at |-> "lockout", i |-> 0]
    /\ hlast = HCall("init", "IDLE", None, FALSE, FALSE)
    /\ asserted = [lockout |-> FALSE, error |-> FALSE]
    /\ \/ \E x \in LsfInputs : codec = CodecInput("lsf", x)
       \/ \E x \in StreamInputs : codec = CodecInput("stream", x)
       \/ \E x \in BytesInputs : codec = CodecInput("bytes", x)
       \/ \E x \in LsfBytesInputs : codec = CodecInput("lsf_bytes", x)

SpecCodec == InitCodec /\ [][NextCodec]_vars

(***************************************************************************)
(* SpecNet: an M17Network endpoint on its own, from its construction, with *)
(* its receive worker.  last records the call made or the datagram the     *)
(* worker received.                                                        *)
(***************************************************************************)
MaxBuffer == 2
MaxWall == 2

OutIds == {4660, 65535}
PingResponse == <<0, 18, 52>>
NetworkData == <<77, 49, 55>>
OtherData == <<77, 49, 56>>
Datagrams == {PingResponse, NetworkData, OtherData}

\* time.time()
WallTime == Epoch + now

\* A logged exception of socket.sendto on an endpoint that tried to send.
SendError(tried, sent) == IF tried /\ ~sent THEN "logged" ELSE ""

NetStep(op, arg, ret, err, out, n) ==
    /\ net' = n
    /\ last' = Call(op, arg, ret, err, out)
    /\ UNCHANGED <<ctl, now, hostVars>>

NetOpen(outcome, sent) ==
    \E r \in {net_open(net, outcome, sent)} :
        NetStep("open", <<>>, r.ret, SendError(outcome = "ok", sent), r.out, r.n)

NetEnableCall(enabled) ==
    NetStep("enable", <<>>, IF enabled THEN "True" ELSE "False", "", <<>>,
            net_enable(net, enabled))

NetSendPing(sent) ==
    NetStep("send_ping", <<>>, "None", SendError(net.socket, sent),
            send_ping_out(net, sent), send_ping(net, sent))

NetClock(ms, sent) ==
    \E r \in {net_clock(net, WallTime, sent)} :
        NetStep("clock", ms, "None",
                SendError(net.enabled /\ net.socket /\ r.n.last_ping # net.last_ping, sent),
                r.out, r.n)

NetWrite(data, sent) ==
    \E out \in {net_write_sent(net, data, sent)} :
        NetStep("write", data, IF out # <<>> THEN "True" ELSE "False",
                SendError(net.enabled /\ net.socket, sent), out, net)

NetReset == \E id \in OutIds : NetStep("reset", <<>>, "None", "", <<>>, net_reset(net, id))

NetClose == NetStep("close", <<>>, "None", "", <<>>, net_close(net))

\* read(): out is the datagram returned, if any.
NetRead ==
    /\ Len(net.buffer) <= MaxBuffer \/ Len(net.buffer) > QueueSize - MaxBuffer
    /\ \E r \in {net_read(net)} :
        NetStep("read", <<>>, IF r.ret.some THEN "bytes" ELSE "None", "",
                IF r.ret.some THEN <<r.ret.v>> ELSE <<>>, r.n)

\* One pass of _rx_loop in which recvfrom returned data from the gateway
\* address and port (from_gateway) or from another address or port.  The
\* queue grows while it holds fewer than MaxBuffer packets or is within
\* MaxBuffer of full, where NetworkData alone is queued.
NetDatagram(data, from_gateway) ==
    /\ net.running /\ net.socket
    /\ (from_gateway /\ data[1] # 0)
       => \/ Len(net.buffer) < MaxBuffer
          \/ Len(net.buffer) = QueueSize
          \/ Len(net.buffer) >= QueueSize - MaxBuffer /\ data = NetworkData
    /\ NetStep("_rx_loop", data, IF from_gateway THEN "gateway" ELSE "other", "", <<>>,
               rx_loop_datagram(net, data, from_gateway))

\* PingInterval seconds pass.
NetTick ==
    /\ now < MaxWall * PingInterval
    /\ now' = now + PingInterval
    /\ UNCHANGED <<ctlVars, hostVars>>

NextNet ==
    \/ \E outcome \in {"no_socket", "bind_fails", "ok"}, sent \in BOOLEAN : NetOpen(outcome, sent)
    \/ \E enabled \in BOOLEAN : NetEnableCall(enabled)
    \/ \E sent \in BOOLEAN : NetSendPing(sent)
    \/ \E ms \in {1000, 5000}, sent \in BOOLEAN : NetClock(ms, sent)
    \/ \E sent \in BOOLEAN : NetWrite(NetworkData, sent)
    \/ NetReset
    \/ NetClose
    \/ NetRead
    \/ \E data \in Datagrams, from_gateway \in BOOLEAN : NetDatagram(data, from_gateway)
    \/ NetTick

InitNet ==
    /\ ctl = M17Control(FALSE, FALSE, TRUE)
    /\ \E id \in OutIds : net = [NewNetwork EXCEPT !.out_id = id]
    /\ last = NoCall
    /\ now = 0
    /\ HostInit({})

SpecNet == InitNet /\ [][NextNet]_vars

(***************************************************************************)
(* SpecQueue: the inbound queue of an opened endpoint, empty or one short  *)
(* of full, with its receive worker and its reader.                        *)
(***************************************************************************)
\* The queue after the gateway sent k data datagrams that were not read.
Queued(k) == [i \in 1..k |-> NetworkData]

NextQueue ==
    \/ \E data \in Datagrams, from_gateway \in BOOLEAN : NetDatagram(data, from_gateway)
    \/ NetRead
    \/ \E enabled \in BOOLEAN : NetEnableCall(enabled)

InitQueue ==
    /\ ctl = M17Control(FALSE, FALSE, TRUE)
    /\ \E k \in {0, QueueSize - 1} : net = [M17Network EXCEPT !.buffer = Queued(k)]
    /\ last = NoCall
    /\ now = 0
    /\ HostInit({})

SpecQueue == InitQueue /\ [][NextQueue]_vars

(***************************************************************************)
(* SpecClose: the network endpoint and the modem with their receive        *)
(* workers as threads of their own, opened and closed by the main thread.  *)
(* pc.at is where the main thread is: "run" (in no call), or "net_join",   *)
(* "net_close", "modem_join", "modem_close" inside a call of close().      *)
(***************************************************************************)
MainAt(at) == pc.at = at
MainTo(at) == pc' = [pc EXCEPT !.at = at]

\* network.open() and modem.open(), on an object that is not running.
NetOpenThread(outcome) ==
    /\ MainAt("run") /\ ~net.running /\ net.rx_thread \in {"none", "done"}
    /\ \E r \in {net_open(net, outcome, TRUE)} :
           net' = r.n /\ last' = Call("open", <<>>, r.ret, "", r.out)
    /\ UNCHANGED <<ctl, now, host, modem, pc, hlast, asserted, codec>>

ModemOpenThread(outcome) ==
    /\ MainAt("run") /\ ~modem.running /\ modem.rx_thread \in {"none", "done"}
    /\ modem' = modem_open(modem, outcome)
    /\ last' = Call("modem.open", <<>>, "None", "", <<>>)
    /\ UNCHANGED <<ctl, net, now, host, pc, hlast, asserted, codec>>

\* M17Network._rx_loop: the condition of the while loop.
NetWorkerCheck ==
    /\ net.rx_thread = "loop"
    /\ net' = [net EXCEPT !.rx_thread = IF net.running /\ net.socket THEN "recv" ELSE "done"]
    /\ UNCHANGED <<ctl, last, now, hostVars>>

\* M17Network._rx_loop: recvfrom returns data (or times out, data = <<>>),
\* or raises because the socket is gone.
NetWorkerRecv(data, from_gateway) ==
    /\ net.rx_thread = "recv"
    /\ Len(net.buffer) < MaxBuffer \/ data = <<>>
    /\ net' = [(IF net.socket THEN rx_loop_datagram(net, data, from_gateway) ELSE net)
                  EXCEPT !.rx_thread = "loop"]
    /\ UNCHANGED <<ctl, last, now, hostVars>>

\* A close() that closes the socket before it waits for the worker.
NetCloseBegin_closes_first ==
    /\ MainAt("run")
    /\ net' = [net EXCEPT !.running = FALSE, !.socket = FALSE]
    /\ MainTo(IF net.rx_thread # "none" THEN "net_join" ELSE "net_close")
    /\ UNCHANGED <<ctl, last, now, host, modem, hlast, asserted, codec>>

\* M17Network.close, lines 102-104: running = False, then join if there is
\* a worker.
NetCloseBegin ==
    /\ MainAt("run")
    /\ net' = [net EXCEPT !.running = FALSE]
    /\ MainTo(IF net.rx_thread # "none" THEN "net_join" ELSE "net_close")
    /\ UNCHANGED <<ctl, last, now, host, modem, hlast, asserted, codec>>

\* rx_thread.join() returns once the worker has terminated.
NetJoin ==
    /\ MainAt("net_join") /\ net.rx_thread = "done"
    /\ MainTo("net_close")
    /\ UNCHANGED <<ctlVars, now, host, modem, hlast, asserted, codec>>

\* M17Network.close, lines 105-107, and the return.
NetCloseSocket ==
    /\ MainAt("net_close")
    /\ net' = [net EXCEPT !.socket = FALSE]
    /\ last' = Call("close", <<>>, "None", "", <<>>)
    /\ MainTo("run")
    /\ UNCHANGED <<ctl, now, host, modem, hlast, asserted, codec>>

\* Modem._rx_loop: the condition of the while loop.
ModemWorkerCheck ==
    /\ modem.rx_thread = "loop"
    /\ modem' = [modem EXCEPT !.rx_thread = IF modem.running THEN "recv" ELSE "done"]
    /\ UNCHANGED <<ctlVars, now, host, pc, hlast, asserted, codec>>

\* Modem._rx_loop: conn.read() or conn.recvfrom() returns the bytes of a
\* status frame (or times out, frame = <<>>), or raises because conn is
\* gone.
ModemWorkerRecv(frame) ==
    /\ modem.rx_thread = "recv"
    /\ modem' = [(IF modem.conn THEN process_frame(modem, frame) ELSE modem)
                    EXCEPT !.rx_thread = "loop"]
    /\ UNCHANGED <<ctlVars, now, host, pc, hlast, asserted, codec>>

\* Modem.close, lines 174-176.
ModemCloseBegin ==
    /\ MainAt("run")
    /\ modem' = [modem EXCEPT !.running = FALSE]
    /\ MainTo(IF modem.rx_thread # "none" THEN "modem_join" ELSE "modem_close")
    /\ UNCHANGED <<ctlVars, now, host, hlast, asserted, codec>>

ModemJoin ==
    /\ MainAt("modem_join") /\ modem.rx_thread = "done"
    /\ MainTo("modem_close")
    /\ UNCHANGED <<ctlVars, now, host, modem, hlast, asserted, codec>>

\* Modem.close, lines 177-179, and the return.
ModemCloseConn ==
    /\ MainAt("modem_close")
    /\ modem' = [modem EXCEPT !.conn = FALSE]
    /\ last' = Call("modem.close", <<>>, "None", "", <<>>)
    /\ MainTo("run")
    /\ UNCHANGED <<ctl, net, now, host, hlast, asserted, codec>>

NetWorker ==
    \/ NetWorkerCheck
    \/ \E data \in Datagrams \cup {<<>>}, from_gateway \in BOOLEAN :
           NetWorkerRecv(data, from_gateway)

ModemWorker ==
    \/ ModemWorkerCheck
    \/ \E frame \in StatusFrames \cup {<<>>} : ModemWorkerRecv(frame)

NextClose ==
    \/ \E outcome \in {"bind_fails", "ok"} : NetOpenThread(outcome)
    \/ \E outcome \in {"no_conn", "ok"} : ModemOpenThread(outcome)
    \/ NetWorker
    \/ ModemWorker
    \/ NetCloseBegin \/ NetJoin \/ NetCloseSocket
    \/ ModemCloseBegin \/ ModemJoin \/ ModemCloseConn

InitClose ==
    /\ ctl = M17Control(FALSE, FALSE, TRUE)
    /\ net = NewNetwork
    /\ last = NoCall
    /\ now = 0
    /\ host = MMDVMHost({})
    /\ modem = NewModem
    /\ pc = [at |-> "run", i |-> 0]
    /\ hlast = HCall("init", "IDLE", None, FALSE, FALSE)
    /\ asserted = [lockout |-> FALSE, error |-> FALSE]
    /\ codec = NoCodec

\* recvfrom and read time out after one second, so a worker always takes
\* its next step; the main thread goes on once join() can return.
SpecClose ==
    /\ InitClose /\ [][NextClose]_vars
    /\ WF_vars(NetWorker) /\ WF_vars(ModemWorker)
    /\ WF_vars(NetJoin) /\ WF_vars(NetCloseSocket)
    /\ WF_vars(ModemJoin) /\ WF_vars(ModemCloseConn)

(***************************************************************************)
(* The mode arbiter (mmdvm_host.py).                                       *)
(***************************************************************************)

\* C1: single-channel exclusion.  In a pass of process_modem_data in which
\* read_mode_data returns bytes for a mode other than the current mode, the
\* current mode being a traffic mode, write_modem is not called for that
\* mode and the host's mode and mode timer are left as they were.
C1_SingleChannelExclusion ==
    [][\A data \in {None, Some(<<1>>)}, accept \in BOOLEAN :
          (/\ ProcessModeData(data, accept)
           /\ Truthy(data)
           /\ host.mode \in TrafficModes
           /\ LoopModes(host)[pc.i] # host.mode)
          => (host' = host /\ ~hlast'.wrote)]_vars

\* Bytes for another mode have been dropped while a traffic mode held the
\* channel.
C1_Witness ==
    /\ hlast.op = "data" /\ Truthy(hlast.data) /\ ~hlast.wrote
    /\ host.mode \in TrafficModes /\ hlast.m # host.mode

\* C2: the mode changes to a traffic mode only in a step that starts in
\* IDLE.
C2_TrafficOnlyFromIdle ==
    [][(host'.mode \in TrafficModes /\ host'.mode # host.mode)
       => host.mode = "IDLE"]_vars

\* A traffic mode has been entered: its network accepted the bytes forwarded
\* in the last pass.
C2_Witness ==
    /\ hlast.op = "data" /\ hlast.accepted
    /\ host.mode \in TrafficModes /\ hlast.m = host.mode
    /\ host.mode_timer.running /\ host.mode_timer.start_time = now

\* C3: in IDLE, when the modem holds received bytes for a mode that has a
\* network (D-Star bytes in rx_dstar, DMR bytes in rx_dmr1 or rx_dmr2), the
\* pass of process_modem_data for that mode reads bytes from the modem and
\* calls write_modem; when write_modem accepts, the mode becomes that mode
\* and the mode timer is armed with the hang time, otherwise the mode stays
\* IDLE.
C3_IdleForwards ==
    [][\A accept \in BOOLEAN :
          (/\ ProcessModemData(accept)
           /\ host.mode = "IDLE"
           /\ \/ LoopModes(host)[pc.i] = "DSTAR" /\ modem.rx["dstar"] # <<>>
              \/ LoopModes(host)[pc.i] = "DMR"
                 /\ (modem.rx["dmr1"] # <<>> \/ modem.rx["dmr2"] # <<>>))
          => (/\ Truthy(hlast'.data) /\ hlast'.wrote /\ modem'.rx # modem.rx
              /\ IF accept
                 THEN /\ host'.mode = LoopModes(host)[pc.i]
                      /\ host'.mode_timer.running
                      /\ host'.mode_timer.timeout = RFModeHang
                 ELSE host'.mode = "IDLE")]_vars

SyncOf(data) == Slice(data, 0, SYNC_LENGTH_BYTES)

\* For each input frame, whether the CRC of data[2:] is right.
LsfCrcOk == [f \in Frames |-> check_crc16(Slice(f, SYNC_LENGTH_BYTES, Len(f))).val]

\* A call of process_rf_data that takes a frame with this sync from the queue.
RfProcesses(sync) ==
    /\ ProcessRfData
    /\ ctl.rf_data # <<>>
    /\ SyncOf(Head(ctl.rf_data)) = sync

\* A call of process_network_data that takes a frame with this sync.
NetProcesses(sync) ==
    /\ ProcessNetworkData
    /\ ctl.net_data # <<>>
    /\ SyncOf(Head(ctl.net_data)) = sync

\* The step admits or accepts a frame on the RF side, or ends the RF
\* transmission.
RfAdmits == ctl.rf_state = "NONE" /\ ctl'.rf_state = "PROCESS"
RfAccepts == ctl.rf_state = "PROCESS" /\ ctl'.rf_frames = ctl.rf_frames + 1
RfEnds == ctl.rf_state = "PROCESS" /\ ctl'.rf_state = "NONE"

\* C5: the RF watchdog.  Admitting a LINK_SETUP and accepting a STREAM
\* frame set rf_timeout to the time of the call plus tx_hang, and nothing
\* else changes it.  A clock() call in PROCESS at or after rf_timeout
\* returns the RF state to NONE and writes the EOT sentinel to the network,
\* once, if the endpoint is attached, connected and enabled, and writes
\* nothing otherwise; a clock() call before rf_timeout, or in NONE, leaves
\* the RF state as it is and writes nothing.
C5_Watchdog ==
    [][/\ (RfAdmits \/ RfAccepts) => ctl'.rf_timeout = now + ctl.tx_hang
       /\ ctl'.rf_timeout # ctl.rf_timeout => (RfAdmits \/ RfAccepts)
       /\ Clock(1000) =>
            IF ctl.rf_state = "PROCESS" /\ now >= ctl.rf_timeout
            THEN /\ ctl'.rf_state = "NONE"
                 /\ last'.out = IF NetUp THEN <<EOT_SYNC>> ELSE <<>>
            ELSE /\ ctl'.rf_state = ctl.rf_state
                 /\ last'.out = <<>>]_vars

\* The watchdog has ended a transmission and the EOT sentinel was written.
C5_Witness ==
    /\ last.op = "clock" /\ last.out = <<EOT_SYNC>>
    /\ ctl.rf_state = "NONE" /\ now >= ctl.rf_timeout

\* C5 as stated: the clock() call that finds the transmission timed out
\* writes the EOT sentinel, whatever the state of the endpoint.
C5_AlwaysForwards ==
    [][(Clock(1000) /\ ctl.rf_state = "PROCESS" /\ now >= ctl.rf_timeout)
       => (ctl'.rf_state = "NONE" /\ last'.out = <<EOT_SYNC>>)]_vars

\* C6: the transmission counters.  Processing a valid STREAM frame in
\* PROCESS adds one to rf_frames, and then rf_bits is 128 * rf_frames and
\* rf_errs is 0, whatever the frame's sequence number.
C6_Counters ==
    [][(/\ RfProcesses(STREAM_SYNC)
        /\ ctl.rf_state = "PROCESS"
        /\ decode_stream(Head(ctl.rf_data)).err = "")
       => (/\ ctl'.rf_frames = ctl.rf_frames + 1
           /\ ctl'.rf_bits = 128 * ctl'.rf_frames
           /\ ctl'.rf_errs = 0)]_vars

C8_SelfOnly ==
    [][/\ (/\ RfProcesses(LINK_SETUP_SYNC)
           /\ ctl.self_only
           /\ decode_lsf(Head(ctl.rf_data)).err = ""
           /\ decode_lsf(Head(ctl.rf_data)).lsf.dst_callsign # ctl.callsign)
          => (ctl' = [ctl EXCEPT !.rf_data = <<>>] /\ last'.out = <<>>)
       /\ (/\ NetProcesses(LINK_SETUP_SYNC)
           /\ ctl.self_only
           /\ decode_lsf(Head(ctl.net_data)).err = ""
           /\ decode_lsf(Head(ctl.net_data)).lsf.dst_callsign # ctl.callsign)
          => (ctl' = [ctl EXCEPT !.net_data = <<>>] /\ last'.out = <<>>)]_vars

\* A LINK_SETUP for another station has been processed on the Net side with
\* self_only set, the Net side being idle.
C8_Witness ==
    /\ last.op = "process_network_data" /\ last.data = LsfOther
    /\ ctl.self_only /\ ctl.net_state = "NONE" /\ last.out = <<>>

C10_BadCrc ==
    [][(/\ RfProcesses(LINK_SETUP_SYNC)
        /\ ctl.rf_state = "NONE"
        /\ ~LsfCrcOk[Head(ctl.rf_data)])
       => (ctl' = [ctl EXCEPT !.rf_data = <<>>] /\ last'.out = <<>>)]_vars

\* The LINK_SETUP with its last CRC byte XORed by 1 has been processed:
\* LSF.decode raised LSFDecodeError.
C10_Witness ==
    /\ last.op = "process_rf_data" /\ last.data = LsfBadCrc
    /\ last.err = "LSFDecodeError" /\ ctl.rf_state = "NONE"

\* The three sync words.
SyncWords == {LINK_SETUP_SYNC, STREAM_SYNC, EOT_SYNC}

\* C11: sync discrimination.  A call of process_rf_data or
\* process_network_data that takes a frame whose first two bytes are none of
\* the three sync words changes nothing but the queue the frame is taken
\* from, and writes nothing to the network.
C11_SyncDiscrimination ==
    [][/\ (/\ ProcessRfData
           /\ ctl.rf_data # <<>>
           /\ SyncOf(Head(ctl.rf_data)) \notin SyncWords)
          => (ctl' = [ctl EXCEPT !.rf_data = <<>>] /\ last'.out = <<>>)
       /\ (/\ ProcessNetworkData
           /\ ctl.net_data # <<>>
           /\ SyncOf(Head(ctl.net_data)) \notin SyncWords)
          => (ctl' = [ctl EXCEPT !.net_data = <<>>] /\ last'.out = <<>>)]_vars

\* A frame with an unknown sync has been taken from the RF queue during an
\* RF transmission, which goes on.
C11_Witness ==
    /\ last.op = "process_rf_data" /\ last.data = BadSyncFrame
    /\ ctl.rf_state = "PROCESS" /\ ctl.rf_data = <<>>

\* C12: depth-1 back-pressure.  A call of write_rf_data or
\* write_network_data made while the side's queue holds a frame returns
\* False and leaves the queue, with the older frame, as it is; a call with a
\* 48-byte frame made while the queue is empty returns True and the queue
\* then holds that frame, which is the frame the next process call takes.
\* A call is one step: it never waits.
C12_BackPressure ==
    [][/\ \A data \in SideInputs :
            /\ WriteRfData(data) =>
                 IF ctl.rf_data # <<>>
                 THEN ctl' = ctl /\ last'.ret = "False"
                 ELSE Len(data) = FRAME_LENGTH_BYTES
                      => (/\ ctl' = [ctl EXCEPT !.rf_data = <<data>>]
                          /\ last'.ret = "True")
            /\ WriteNetworkData(data) =>
                 IF ctl.net_data # <<>>
                 THEN ctl' = ctl /\ last'.ret = "False"
                 ELSE Len(data) = FRAME_LENGTH_BYTES
                      => (/\ ctl' = [ctl EXCEPT !.net_data = <<data>>]
                          /\ last'.ret = "True")
       /\ (ProcessRfData /\ ctl.rf_data # <<>>)
          => (last'.data = Head(ctl.rf_data) /\ ctl'.rf_data = <<>>)
       /\ (ProcessNetworkData /\ ctl.net_data # <<>>)
          => (last'.data = Head(ctl.net_data) /\ ctl'.net_data = <<>>)]_vars

\* A 48-byte frame was refused because the RF queue holds an older,
\* different frame, which is still there.
C12_Witness ==
    /\ last.op = "write_rf_data" /\ last.ret = "False"
    /\ Len(last.data) = FRAME_LENGTH_BYTES
    /\ ctl.rf_data # <<>> /\ Head(ctl.rf_data) # last.data

(***************************************************************************)
(* The codec (m17_lsf.py, m17_crc.py).                                     *)
(***************************************************************************)
\* A call of add_fragment with a fragment of LSF_FRAGMENT_LENGTH_BYTES and
\* an index in 0..5 has been made in this step.
AddsFragment ==
    /\ codec' # codec
    /\ codec'.op = "add_fragment"
    /\ Len(codec'.arg[1]) = LSF_FRAGMENT_LENGTH_BYTES
    /\ codec'.arg[2] \in 0..(NUM_LICH_FRAGMENTS - 1)

\* The slots of the reassembler once that call has stored its fragment.
Stored == [codec.frags EXCEPT ![codec'.arg[2]] = Some(codec'.arg[1])]

\* For each concatenation of six fragments, whether the CRC of its first 28
\* bytes is its last two bytes.
LichCrcOk == [j \in LichJoins |-> check_crc16(j).val]

\* The four fields of the type byte b are legal values of their enums.
LegalTypeByte(b) ==
    /\ b % 2 \in PacketType
    /\ (b \div 2) % 4 \in DataType
    /\ (b \div 8) % 4 \in EncryptionType
    /\ (b \div 32) % 4 \in EncryptionSubType

\* C13: LICH completeness.  add_fragment stores the fragment; with fewer
\* than six slots filled it returns nothing; with six filled it returns an
\* LSF if the concatenation of the six fragments has a right CRC and a type
\* byte whose four fields are legal, and raises FragmentError otherwise.
C13_Completeness ==
    [][AddsFragment =>
         /\ codec'.frags = Stored
         /\ IF ~is_complete(Stored)
            THEN codec'.res.err = "" /\ ~codec'.res.lsf.some
            ELSE IF /\ LichCrcOk[JoinFrom(Stored, 0)]
                    /\ LegalTypeByte(JoinFrom(Stored, 0)[13])
                 THEN codec'.res.err = "" /\ codec'.res.lsf.some
                 ELSE codec'.res.err = "FragmentError"]_vars

\* The sixth fragment of a 30-byte LSF with a right CRC has been added and
\* the LSF was returned.
C13_Witness ==
    /\ codec.op = "add_fragment" /\ codec.res.err = "" /\ codec.res.lsf.some
    /\ is_complete(codec.frags) /\ JoinFrom(codec.frags, 0) = LichValid

\* C13 as stated: with six slots filled, an LSF is returned if and only if
\* the concatenation has a right CRC.
C13_CrcOnly ==
    [][AddsFragment =>
         IF ~is_complete(Stored)
         THEN codec'.res.err = "" /\ ~codec'.res.lsf.some
         ELSE IF LichCrcOk[JoinFrom(Stored, 0)]
              THEN codec'.res.err = "" /\ codec'.res.lsf.some
              ELSE codec'.res.err = "FragmentError"]_vars

\* The fragments of what LSF.encode returns for LichLsf, each in its slot.
EncodedFragments ==
    [i \in 0..(NUM_LICH_FRAGMENTS - 1) |-> Some(LichFragment(LichEncoded, i))]

\* C14: reassembly is order-independent.  Whatever the order in which the
\* six fragments of an encoded LSF are added, the calls that leave a slot
\* empty return nothing and the call that fills the last slot returns an
\* LSF equal to the encoded one.
C14_OrderIndependent ==
    [][(AddsFragment /\ \A i \in DOMAIN Stored : Stored[i] \in {None, EncodedFragments[i]})
       => IF ~is_complete(Stored)
          THEN codec'.res.err = "" /\ ~codec'.res.lsf.some
          ELSE /\ codec'.res.err = ""
               /\ codec'.res.lsf.some
               /\ codec'.res.lsf.v = LichLsf]_vars

\* An LSF as C15 takes it: callsigns of one to six upper-case letters or
\* digits, a CAN of 16 bits, legal enum values and the zero nonce.
CallsignChars == (65..90) \cup (48..57)
LegalCallsign(cs) ==
    /\ Len(cs) \in 1..MAX_CALLSIGN_LENGTH
    /\ \A i \in 1..Len(cs) : cs[i] \in CallsignChars
LegalLsf(lsf) ==
    /\ LegalCallsign(lsf.dst_callsign) /\ LegalCallsign(lsf.src_callsign)
    /\ lsf.can \in 0..65535
    /\ lsf.packet_type \in PacketType /\ lsf.data_type \in DataType
    /\ lsf.encryption_type \in EncryptionType
    /\ lsf.encryption_subtype \in EncryptionSubType
    /\ lsf.nonce = NULL_NONCE

\* C15: LSF round-trip.  For such an LSF, LSF.encode succeeds, LSF.decode
\* of what it returned succeeds, and the decoded LSF equals the encoded one
\* field for field.
C15_LsfRoundTrip ==
    (codec.op = "LSF.encode" /\ LegalLsf(codec.arg))
    => /\ codec.res.enc.err = ""
       /\ codec.res.dec.err = ""
       /\ codec.res.dec.lsf = codec.arg

\* An LSF with a one-character destination, a six-character source and the
\* largest CAN has been encoded and decoded back.
C15_Witness ==
    /\ codec.op = "LSF.encode" /\ LegalLsf(codec.arg)
    /\ Len(codec.arg.dst_callsign) = 1 /\ Len(codec.arg.src_callsign) = MAX_CALLSIGN_LENGTH
    /\ codec.arg.can = 65535
    /\ codec.res.dec.err = "" /\ codec.res.dec.lsf = codec.arg

\* C16: the length of an encoded LSF.  What LSF.encode returns is
\* LSF_LENGTH_BYTES (30) bytes long, that is six fragments of
\* LSF_FRAGMENT_LENGTH_BYTES, and ends in the big-endian CRC of the bytes
\* before it.
C16_ThirtyBytes ==
    (codec.op = "LSF.encode" /\ codec.res.enc.err = "")
    => /\ Len(codec.res.enc.val) = LSF_LENGTH_BYTES
       /\ Len(codec.res.enc.val) = NUM_LICH_FRAGMENTS * LSF_FRAGMENT_LENGTH_BYTES
       /\ check_crc16(codec.res.enc.val).val

\* C17: the CRC LSF.decode validates.  For an input of at least 30 bytes,
\* LSF.decode succeeds exactly if the CRC of bytes 0..27 is bytes 28..29
\* (and the type byte is legal), whatever follows byte 29; so it accepts
\* what the controller hands it for a 48-byte LINK_SETUP frame made of the
\* sync word, a valid 30-byte LSF and zero padding.
C17_CrcOfFirstThirty ==
    (codec.op = "LSF.decode" /\ Len(codec.arg) >= LSF_LENGTH_BYTES)
    => ((codec.res.err = "")
        <=> /\ check_crc16(Slice(codec.arg, 0, LSF_LENGTH_BYTES)).val
            /\ LegalTypeByte(codec.arg[13]))

\* A stream frame as C18 takes it.
LegalStreamFrame(f) ==
    /\ f.frame_number \in 0..32767
    /\ f.is_last \in BOOLEAN
    /\ Len(f.payload) <= PAYLOAD_LENGTH_BYTES
    /\ (f.lich_fragment.some => Len(f.lich_fragment.v) = LSF_FRAGMENT_LENGTH_BYTES)

\* C18: stream round-trip.  For such a frame, StreamFrame.encode succeeds,
\* StreamFrame.decode of what it returned succeeds, and the decoded frame
\* equals the encoded one in frame_number, is_last, payload and
\* lich_fragment.
C18_StreamRoundTrip ==
    (codec.op = "StreamFrame.encode" /\ LegalStreamFrame(codec.arg))
    => /\ codec.res.enc.err = ""
       /\ codec.res.dec.err = ""
       /\ codec.res.dec.frame.frame_number = codec.arg.frame_number
       /\ codec.res.dec.frame.is_last = codec.arg.is_last
       /\ codec.res.dec.frame.payload = codec.arg.payload
       /\ codec.res.dec.frame.lich_fragment = codec.arg.lich_fragment

\* C19: CRC round-trip.  For a non-empty b of at most 28 bytes,
\* encode_crc16(b) is b followed by the two bytes of create_crc16(b), high
\* byte first, and check_crc16 of it is true; create_crc16 and encode_crc16
\* raise ValueError for the empty input, and check_crc16 raises ValueError
\* for an input of fewer than three bytes.
C19_CrcRoundTrip ==
    codec.op = "encode_crc16"
    => /\ Len(codec.arg) \in 1..(LSF_LENGTH_BYTES - CRC_LENGTH_BYTES)
          => /\ codec.res.crc.err = "" /\ codec.res.enc.err = ""
             /\ codec.res.enc.val = codec.arg \o ToBytes2(codec.res.crc.val)
             /\ codec.res.chk.err = "" /\ codec.res.chk.val
       /\ Len(codec.arg) = 0
          => codec.res.crc.err = "ValueError" /\ codec.res.enc.err = "ValueError"
       /\ Len(codec.arg) < 3 => codec.res.raw.err = "ValueError"

\* The CRC of a 28-byte string whose two CRC bytes differ has been
\* appended and checked.
C19_Witness ==
    /\ codec.op = "encode_crc16"
    /\ Len(codec.arg) = LSF_LENGTH_BYTES - CRC_LENGTH_BYTES
    /\ codec.res.chk.err = "" /\ codec.res.chk.val
    /\ codec.res.crc.val % 256 # codec.res.crc.val \div 256

\* A step in which the receive worker took a datagram whose first byte is
\* 0x00 from the gateway address and port.
RxPingStep ==
    /\ last'.op = "_rx_loop" /\ last'.ret = "gateway"
    /\ Len(last'.data) > 0 /\ last'.data[1] = 0

\* C20: the connected flag.  It is false after construction, a step of
\* open() leaves it false, it turns from false to true only in a step in
\* which the receive worker takes a datagram whose first byte is 0x00 from
\* the gateway address and port, and a step of send_ping never sets it.
C20_ConnectedOnlyByPing ==
    /\ ~net.connected
    /\ [][/\ (~net.connected /\ net'.connected) => RxPingStep
          /\ (~net.connected /\ last'.op \in {"open", "send_ping"}) => ~net'.connected]_vars

\* The opened endpoint is connected: the worker took a ping response from
\* the gateway.
C20_Witness ==
    /\ net.connected /\ net.socket /\ net.running
    /\ last.op = "_rx_loop" /\ last.ret = "gateway" /\ last.data = PingResponse

\* C21: keepalive.  A call of clock on a disabled endpoint sends nothing;
\* a call clock(5000) on an enabled endpoint with a socket, whose send does
\* not fail, sends exactly one ping [0x00, hi(out_id), lo(out_id)]; and a
\* successful open() followed by clock(5000) has sent exactly one ping
\* datagram in total.
C21_Keepalive ==
    [][last'.op = "clock" =>
         /\ ~net.enabled => last'.out = <<>>
         /\ (net.enabled /\ net.socket /\ last'.data = 5000 /\ last'.err = "")
            => last'.out = <<ping(net)>>
         /\ (last.op = "open" /\ last.ret = "True" /\ last.err = ""
             /\ last'.data = 5000 /\ last'.err = "")
            => Len(last.out) + Len(last'.out) = 1]_vars

\* C22: other peers.  A pass of the receive worker that took a datagram
\* from an address or port other than the gateway's leaves the endpoint,
\* its queue and its connected flag included, exactly as it was, whatever
\* the first byte of the datagram.
C22_OtherPeers ==
    [][(/\ last'.op = "_rx_loop" /\ last'.ret = "other"
        /\ (last.op # "_rx_loop" \/ last.n # last'.n))
       => /\ net'.buffer = net.buffer
          /\ net'.connected = net.connected
          /\ net' = net]_vars

\* The worker of an enabled, unconnected endpoint has taken a ping response
\* from another peer.
C22_Witness ==
    /\ last.op = "_rx_loop" /\ last.ret = "other" /\ last.data = PingResponse
    /\ net.running /\ net.socket /\ net.enabled /\ ~net.connected

\* A pass of the receive worker that took a datagram other than a ping
\* response from the gateway, and a call of read, made in this step.
RxDataStep ==
    /\ last'.op = "_rx_loop" /\ last'.ret = "gateway" /\ last'.data[1] # 0
    /\ (last.op # "_rx_loop" \/ last.n # last'.n)
ReadStep == last'.op = "read" /\ (last.op # "read" \/ last.n # last'.n)

\* What the two steps do to the queue whatever the endpoint's switches.
QueueBounded ==
    /\ RxDataStep => net'.buffer = IF Len(net.buffer) = QueueSize THEN net.buffer
                                   ELSE Append(net.buffer, last'.data)
    /\ ReadStep => \/ last'.out = <<>> /\ net'.buffer = net.buffer
                   \/ /\ net.buffer # <<>> /\ last'.out = <<Head(net.buffer)>>
                      /\ net'.buffer = Tail(net.buffer)

\* C23: the inbound queue.  It never holds more than 3000 packets; a data
\* packet from the gateway arriving while it is full is dropped and the
\* queue is untouched, otherwise it is appended; read() on an enabled
\* endpoint returns the oldest queued packet and removes it, or nothing if
\* the queue is empty; read() on a disabled endpoint returns nothing and
\* leaves the queue as it is.
C23_InboundQueue ==
    /\ [](Len(net.buffer) <= QueueSize)
    /\ [][/\ QueueBounded
          /\ ReadStep => (last'.out = <<>> <=> (~net.enabled \/ net.buffer = <<>>))]_vars

\* A data packet from the gateway has just been dropped at a full queue.
C23_Witness ==
    /\ last.op = "_rx_loop" /\ last.ret = "gateway" /\ last.data = OtherData
    /\ Len(net.buffer) = QueueSize /\ net.buffer[QueueSize] # OtherData

\* C23 as stated: read() returns nothing exactly when the queue is empty.
C23_ReadUnlessEmpty ==
    /\ [](Len(net.buffer) <= QueueSize)
    /\ [][/\ QueueBounded
          /\ ReadStep => (last'.out = <<>> <=> net.buffer = <<>>)]_vars

\* C24: transport failure.  After a call of write or send_ping in which
\* socket.sendto raised, the endpoint is not connected.
C24_SendFailureDemotes ==
    [][(/\ last'.op \in {"write", "send_ping"} /\ last'.err = "logged"
        /\ (last.op # last'.op \/ last.n # last'.n))
       => ~net'.connected]_vars

(***************************************************************************)
(* SpecTx: both sides of the controller and its clock, the endpoint        *)
(* attached, connected and enabled.  Time passes between the calls of      *)
(* clock(ms), by the ms handed to it.                                      *)
(***************************************************************************)
HangTx == 2
RfTxInputs == {LsfLocal, StreamLow, StreamHigh, EotFrame}
NetTxInputs == {LsfLocal, StreamHigh, EotFrame}

\* clock(ms) called ms milliseconds after the previous call.
ClockElapsed(ms) ==
    /\ now + ms \div 1000 <= MaxNow
    /\ now' = now + ms \div 1000
    /\ \E r \in {clock(ctl, net.connected, ms, now')} :
           /\ ctl' = r.ctl
           /\ last' = Call("clock", <<ms>>, "None", r.err, net_write_all(net, r.out))
    /\ UNCHANGED <<net, hostVars>>

\* Frames arrive one at a time: none is written to a side while the other
\* side's frame waits to be processed.
NextTx ==
    \/ \E data \in RfTxInputs : ctl.net_data = <<>> /\ WriteRfData(data)
    \/ ProcessRfData
    \/ \E data \in NetTxInputs : ctl.rf_data = <<>> /\ WriteNetworkData(data)
    \/ ProcessNetworkData
    \/ ClockElapsed(1000)

InitTx ==
    /\ ctl = [M17Control(FALSE, FALSE, TRUE) EXCEPT !.tx_hang = HangTx]
    /\ net = [M17Network EXCEPT !.enabled = TRUE, !.connected = TRUE]
    /\ last = NoCall
    /\ now = 0
    /\ HostInit({})

SpecTx == InitTx /\ [][NextTx]_vars

(***************************************************************************)
(* SpecModem: the modem's framer fed by its receive worker, and the host   *)
(* reading the per-mode rings.                                             *)
(***************************************************************************)
\* The frame types of M17 receive data.  _process_frame names none; these
\* are types it has no branch for.
M17Types == {69, 70}

\* A frame as section 4.8 of the specification lays it out: the length
\* field counts the four header bytes.
WireFrame(type, payload) ==
    <<224, (4 + Len(payload)) \div 256, (4 + Len(payload)) % 256, type>> \o payload

\* A frame whose length field counts the payload bytes only.
PayloadFrame(type, payload) ==
    <<224, Len(payload) \div 256, Len(payload) % 256, type>> \o payload

Payloads == {<<>>, <<7>>}
WireFrames == {WireFrame(t, p) : t \in {32, 69}, p \in Payloads}
WirePairs == {WireFrame(32, p) \o WireFrame(69, q) : p, q \in Payloads}
PayloadFrames == {PayloadFrame(t, p) : t \in {1, 32, 69, 70}, p \in Payloads}

\* What one read of the serial port or one datagram brings: frames, and
\* a single byte, the only chunk that arrives while a frame is incomplete.
SingleBytes == {<<7>>}
ModemChunks == WireFrames \cup WirePairs \cup PayloadFrames \cup SingleBytes

\* Modem._rx_loop: one pass that received data.
ModemData(data) ==
    /\ \A b \in RxNames : Len(modem.rx[b]) < MaxRx
    /\ modem.state = "START" \/ data \in SingleBytes
    /\ \E r \in {process_data(modem, data)} :
          /\ modem' = r.md
          /\ last' = Call("_process_data", data, "None",
                          IF r.raised THEN "logged" ELSE "", r.out)
    /\ UNCHANGED <<ctl, net, now, host, pc, hlast, asserted, codec>>

\* Modem.read_mode_data(name): out holds the bytes returned, if any.
ModemReadMode(name) ==
    /\ \E r \in {read_mode_data(modem, Str(name))} :
          /\ modem' = r.modem
          /\ last' = Call("read_mode_data", name, IF r.data = None THEN "None" ELSE "bytes",
                          "", IF r.data = None THEN <<>> ELSE <<r.data.v>>)
    /\ UNCHANGED <<ctl, net, now, host, pc, hlast, asserted, codec>>

NextModem ==
    \/ \E data \in ModemChunks : ModemData(data)
    \/ \E name \in {"DSTAR", "M17"} : ModemReadMode(name)

InitModem ==
    /\ ctl = M17Control(FALSE, FALSE, TRUE)
    /\ net = NewNetwork
    /\ last = NoCall
    /\ now = 0
    /\ HostInit({})

SpecModem == InitModem /\ [][NextModem]_vars

(***************************************************************************)
(* SpecRing: one RingBuffer, the modem's rx_dstar, written and read.  It   *)
(* starts empty or two bytes short of full.                                *)
(***************************************************************************)
Filled(k) == [i \in 1..k |-> 7]
RingChunks == {<<9>>, <<7, 9>>, <<9, 7>>} \cup {Filled(k) : k \in 1..(MaxRx + 1)}
NearFull(buf) == Len(buf) >= RingSize - MaxRx

\* RingBuffer.write(data).
RingWrite(data) ==
    /\ \/ Len(modem.rx["dstar"]) < MaxRx
       \/ NearFull(modem.rx["dstar"]) /\ data = Filled(Len(data))
    /\ \E r \in {RingBuffer_write(modem.rx["dstar"], data)} :
          /\ modem' = [modem EXCEPT !.rx["dstar"] = r.buf]
          /\ last' = Call("RingBuffer.write", data, IF r.ok THEN "True" ELSE "False", "", <<>>)
    /\ UNCHANGED <<ctl, net, now, host, pc, hlast, asserted, codec>>

\* RingBuffer.read(count): out holds the bytes returned.
RingRead(count) ==
    /\ Len(modem.rx["dstar"]) <= MaxRx + 1 \/ NearFull(modem.rx["dstar"])
    /\ \E r \in {RingBuffer_read(modem.rx["dstar"], count)} :
          /\ modem' = [modem EXCEPT !.rx["dstar"] = r.buf]
          /\ last' = Call("RingBuffer.read", <<count>>, "bytes", "", <<r.data>>)
    /\ UNCHANGED <<ctl, net, now, host, pc, hlast, asserted, codec>>

NextRing ==
    \/ \E data \in RingChunks : RingWrite(data)
    \/ \E count \in {1, 2, 25} : RingRead(count)

InitRing ==
    /\ ctl = M17Control(FALSE, FALSE, TRUE)
    /\ net = NewNetwork
    /\ last = NoCall
    /\ now = 0
    /\ host = MMDVMHost({})
    /\ \E k \in {0, RingSize - MaxRx} : modem = [Modem EXCEPT !.rx["dstar"] = Filled(k)]
    /\ pc = [at |-> "lockout", i |-> 0]
    /\ hlast = HCall("init", "IDLE", None, FALSE, FALSE)
    /\ asserted = [lockout |-> FALSE, error |-> FALSE]
    /\ codec = NoCodec

SpecRing == InitRing /\ [][NextRing]_vars

\* A worker is inside recvfrom or read on a socket or connection that has
\* been closed.
UsesClosed ==
    \/ net.rx_thread = "recv" /\ ~net.socket
    \/ modem.rx_thread = "recv" /\ ~modem.conn

\* C25: shutdown.  No worker ever uses a closed socket or connection; the
\* main thread is at the closing of the socket or connection only when the
\* worker, if there is one, has terminated; and a call of close() that
\* waits for the worker always returns, with the worker terminated and the
\* socket or connection closed.
C25_Shutdown ==
    /\ [](~UsesClosed)
    /\ [](pc.at = "net_close" => net.rx_thread \in {"none", "done"})
    /\ [](pc.at = "modem_close" => modem.rx_thread \in {"none", "done"})
    /\ (pc.at = "net_join") ~> (pc.at = "run" /\ net.rx_thread = "done" /\ ~net.socket)
    /\ (pc.at = "modem_join") ~> (pc.at = "run" /\ modem.rx_thread = "done" /\ ~modem.conn)

\* close() has returned on an endpoint whose worker had received a packet:
\* the worker has terminated and the socket is closed.
C25_Witness ==
    /\ last.op = "close" /\ pc.at = "run"
    /\ net.rx_thread = "done" /\ ~net.socket /\ ~net.running
    /\ net.buffer # <<>>

\* The step is a pass of the modem's worker over received bytes.
ModemDataStep == last'.op = "_process_data" /\ (last.op # last'.op \/ last.n # last'.n)

\* C26: modem framing.  A frame 0xE0, len_hi, len_lo, type, payload whose
\* length field counts its own four header bytes, received by a framer in
\* START, is complete with its last byte: it is dispatched once and the
\* framer is in START again; two such frames back to back are dispatched
\* one after the other.
C26_Framing ==
    [][(ModemDataStep /\ modem.state = "START") =>
         /\ last'.data \in WireFrames =>
                (last'.out = <<last'.data>> /\ modem'.state = "START")
         /\ \A f, g \in WireFrames :
                last'.data = f \o g => (last'.out = <<f, g>> /\ modem'.state = "START")]_vars

\* C27: M17 routing.  Whenever the framer completes a frame whose type is
\* one of M17 receive data, the frame's payload is appended to the M17
\* receive ring.
C27_M17Routing ==
    [][(/\ ModemDataStep /\ last'.err = "" /\ Len(last'.out) = 1
        /\ last'.out[1][4] \in M17Types)
       => modem'.rx["m17"] = modem.rx["m17"] \o Slice(last'.out[1], 4, Len(last'.out[1]))]_vars

RingStep(op) == last'.op = op /\ (last.op # last'.op \/ last.n # last'.n)

\* C28: ring buffers.  A ring never holds more than 3000 bytes; a write of
\* a chunk that does not fit returns false and leaves the bytes in the ring
\* as they were; read(n) returns at most n bytes, the oldest first, and
\* returns without them being there.
C28_RingBuffer ==
    /\ [](Len(modem.rx["dstar"]) <= RingSize)
    /\ [][(RingStep("RingBuffer.write")
            /\ Len(modem.rx["dstar"]) + Len(last'.data) > RingSize)
           => (last'.ret = "False" /\ modem'.rx["dstar"] = modem.rx["dstar"])]_vars
    /\ [][RingStep("RingBuffer.read")
           => /\ Len(last'.out[1]) <= last'.data[1]
              /\ modem.rx["dstar"] = last'.out[1] \o modem'.rx["dstar"]]_vars

\* The frame is one that LSF.decode or StreamFrame.decode, whichever its
\* sync word selects, does not decode.
DecodeFails(data) ==
    \/ Slice(data, 0, SYNC_LENGTH_BYTES) = LINK_SETUP_SYNC /\ decode_lsf(data).err # ""
    \/ Slice(data, 0, SYNC_LENGTH_BYTES) = STREAM_SYNC /\ decode_stream(data).err # ""

\* C29: decode errors are local.  A call of process_rf_data or
\* process_network_data that took a 48-byte frame failing decoding has
\* returned normally: no error left the call.
C29_DecodeErrorsLocal ==
    (/\ last.op \in {"process_rf_data", "process_network_data"}
     /\ Len(last.data) = FRAME_LENGTH_BYTES
     /\ DecodeFails(last.data))
    => last.err = ""

\* C30: the LICH is best effort.  Processing, in PROCESS, a valid STREAM
\* frame whose sequence number is below 6 gives its LICH fragment to the
\* reassembler without an error, and the frame is counted, the watchdog is
\* armed anew and, the network being up, the frame is forwarded.
C30_LichBestEffort ==
    [][(/\ RfProcesses(STREAM_SYNC)
        /\ ctl.rf_state = "PROCESS"
        /\ decode_stream(Head(ctl.rf_data)).err = ""
        /\ decode_stream(Head(ctl.rf_data)).frame.frame_number < 6)
       => (/\ last'.err = ""
           /\ ctl'.rf_frames = ctl.rf_frames + 1
           /\ ctl'.rf_timeout = now + ctl.tx_hang
           /\ NetUp => last'.out = <<last'.data>>)]_vars

\* The call takes from the queue a frame of a kind its side does not
\* expect in its state.
RfUnexpected ==
    \/ RfProcesses(LINK_SETUP_SYNC) /\ ctl.rf_state = "PROCESS"
    \/ RfProcesses(STREAM_SYNC) /\ ctl.rf_state = "NONE"
    \/ RfProcesses(EOT_SYNC) /\ ctl.rf_state = "NONE"
NetUnexpected ==
    \/ NetProcesses(LINK_SETUP_SYNC) /\ ctl.net_state = "PROCESS"
    \/ NetProcesses(STREAM_SYNC) /\ ctl.net_state = "NONE"
    \/ NetProcesses(EOT_SYNC) /\ ctl.net_state = "NONE"

\* C31: frames of an unexpected kind.  A LINK_SETUP taken while the side is
\* in PROCESS, and a STREAM or EOT taken while the side is in NONE, leave
\* the controller as it was but for the frame having left the queue, write
\* nothing to the network and raise nothing.
C31_UnexpectedDropped ==
    [][/\ RfUnexpected => (/\ ctl' = [ctl EXCEPT !.rf_data = <<>>]
                           /\ last'.out = <<>> /\ last'.err = "")
       /\ NetUnexpected => (/\ ctl' = [ctl EXCEPT !.net_data = <<>>]
                            /\ last'.out = <<>> /\ last'.err = "")]_vars

\* A LINK_SETUP was taken on the RF side in the middle of a transmission
\* that had counted a frame, and the transmission goes on.
C31_Witness ==
    /\ last.op = "process_rf_data" /\ last.data = LsfLocal
    /\ ctl.rf_state = "PROCESS" /\ ctl.rf_frames > 0

\* The fields of one side of the controller.
RfFields(c) ==
    <<c.rf_state, c.rf_timeout, c.rf_frames, c.rf_bits, c.rf_errs, c.rf_last_frame, c.rf_lich>>
NetFields(c) ==
    <<c.net_state, c.net_timeout, c.net_frames, c.net_bits, c.net_errs, c.net_last_frame,
      c.net_lich>>

\* The clock() call of this step finds the side's deadline reached.
RfTimesOut == ctl.rf_state = "PROCESS" /\ now' >= ctl.rf_timeout
NetTimesOut == ctl.net_state = "PROCESS" /\ now' >= ctl.net_timeout

\* C32: the sides are independent.  process_rf_data changes no field of
\* the Net side and process_network_data none of the RF side; a clock()
\* call that does not time the Net side out leaves the Net side's fields
\* alone even when it times the RF side out, and the other way round.
C32_Independent ==
    [][/\ ProcessRfData => NetFields(ctl') = NetFields(ctl)
       /\ ProcessNetworkData => RfFields(ctl') = RfFields(ctl)
       /\ (ClockElapsed(1000) /\ ~NetTimesOut) => NetFields(ctl') = NetFields(ctl)
       /\ (ClockElapsed(1000) /\ ~RfTimesOut) => RfFields(ctl') = RfFields(ctl)]_vars

\* The Net side has counted a frame of its transmission while the RF side
\* is in the middle of its own, a frame counted there too.
C32_Witness ==
    /\ last.op = "process_network_data" /\ last.data = StreamHigh
    /\ ctl.net_state = "PROCESS" /\ ctl.net_frames > 0
    /\ ctl.rf_state = "PROCESS" /\ ctl.rf_frames > 0

\* The controller with the fields of its two sides exchanged.
Mirror(c) ==
    [c EXCEPT !.rf_state = c.net_state, !.net_state = c.rf_state,
              !.rf_timeout = c.net_timeout, !.net_timeout = c.rf_timeout,
              !.rf_frames = c.net_frames, !.net_frames = c.rf_frames,
              !.rf_bits = c.net_bits, !.net_bits = c.rf_bits,
              !.rf_errs = c.net_errs, !.net_errs = c.rf_errs,
              !.rf_last_frame = c.net_last_frame, !.net_last_frame = c.rf_last_frame,
              !.rf_lich = c.net_lich, !.net_lich = c.rf_lich,
              !.rf_data = c.net_data, !.net_data = c.rf_data]

\* C33: the Net side mirrors the RF side and emits nothing.  A call of
\* process_network_data leaves the controller as process_rf_data would
\* leave it with the sides exchanged, raising the same, and writes no
\* datagram; a clock() call that times the Net side out sets net_state to
\* NONE, and writes no datagram unless it times the RF side out as well.
C33_NetMirrorsSilently ==
    [][/\ (ProcessNetworkData /\ ctl.net_data # <<>>)
           => \E r \in {process_rf_frame(Mirror([ctl EXCEPT !.net_data = <<>>]), FALSE,
                                          Head(ctl.net_data), now)} :
                 /\ ctl' = Mirror(r.ctl)
                 /\ last'.err = r.err
                 /\ last'.out = <<>>
       /\ (ClockElapsed(1000) /\ NetTimesOut)
           => (ctl'.net_state = "NONE" /\ (~RfTimesOut => last'.out = <<>>))]_vars

\* The Net side has ended a transmission that had counted a frame, on an
\* EOT before its deadline, and nothing was written.
C33_Witness ==
    /\ last.op = "process_network_data" /\ last.data = EotFrame /\ last.out = <<>>
    /\ ctl.net_state = "NONE" /\ ctl.net_frames > 0 /\ now < ctl.net_timeout

\* A side of the controller is carrying a transmission.
Transmitting(c) == c.rf_state = "PROCESS" \/ c.net_state = "PROCESS"

\* C34: the global transmit watchdog.  A clock(ms) call made during a
\* transmission lowers tx_watchdog by ms, or, when it reaches zero, forces
\* both sides to NONE; so during a transmission the watchdog is armed.
C34_TxWatchdog ==
    [][(ClockElapsed(1000) /\ Transmitting(ctl) /\ Transmitting(ctl'))
           => (ctl.tx_watchdog > 0 /\ ctl'.tx_watchdog = ctl.tx_watchdog - 1000)]_vars

\* No slot of the reassembler is filled.
NoSlotFilled(frags) == \A i \in DOMAIN frags : ~frags[i].some

C36_Rearm ==
    [][/\ (/\ RfProcesses(STREAM_SYNC)
            /\ ctl.rf_state = "PROCESS"
            /\ decode_stream(Head(ctl.rf_data)).err = "")
           => ctl'.rf_timeout = now + ctl.tx_hang
       /\ (/\ NetProcesses(STREAM_SYNC)
            /\ ctl.net_state = "PROCESS"
            /\ decode_stream(Head(ctl.net_data)).err = "")
           => ctl'.net_timeout = now + ctl.tx_hang]_vars

\* The hang time has passed since the mode timer was last started.
HangExpired == Timer_hasExpired(host.mode_timer, now)

\* The last pass of process_modem_data restarted the mode timer.
HangRestarted ==
    /\ hlast.op = "data" /\ hlast.accepted
    /\ host.mode_timer.running /\ host.mode_timer.start_time = now

\* A pass in which the network of the current traffic mode accepts bytes.
AcceptsChunk ==
    \E accept \in BOOLEAN :
        /\ ProcessModeData(Some(<<1>>), accept)
        /\ accept
        /\ host.mode \in TrafficModes
        /\ LoopModes(host)[pc.i] = host.mode

\* C37: the mode hang timer.  The timer is not running while the mode is
\* IDLE; a pass that hands bytes of the current traffic mode to its network,
\* the network accepting, restarts the timer at the time of the pass and
\* keeps the mode; and once the hang time has passed since the last start,
\* the host gets to IDLE with the timer stopped, unless an accepted chunk
\* restarts the timer first.
C37_HangTimer ==
    /\ [](host.mode = "IDLE" => ~host.mode_timer.running)
    /\ [][AcceptsChunk => (/\ host'.mode = host.mode
                           /\ host'.mode_timer = Timer_start(host.mode_timer, now))]_vars
    /\ HangExpired ~> ((host.mode = "IDLE" /\ ~host.mode_timer.running) \/ HangRestarted)

\* The timer check has found the hang time passed and returned the host to
\* IDLE, stopping the timer the traffic mode had armed.
C37_Witness ==
    /\ hlast.op = "timer" /\ host.mode = "IDLE"
    /\ ~host.mode_timer.running
    /\ host.mode_timer.timeout = RFModeHang
    /\ now - host.mode_timer.start_time >= host.mode_timer.timeout
    /\ ~modem.lockout /\ ~modem.error

\* The pass received the last byte of a frame: a whole frame, as the framer
\* counts its length, on a framer in START, or the byte that completes the
\* frame the framer was in.
CompletesFrame ==
    /\ ModemDataStep
    /\ last'.out # <<>>
    /\ \/ last'.data \in PayloadFrames /\ modem.state = "START"
       \/ last'.data \in SingleBytes

\* C38: framer resynchronisation.  After the byte that completes a frame
\* the framer is in START, whether or not dispatching the frame raised.
C38_Resync ==
    [][CompletesFrame => modem'.state = "START"]_vars

\* C39: an endpoint that is connected is enabled, whatever the receive
\* worker takes in between the calls of enable.
C39_ConnectedEnabled == net.connected => net.enabled

\* The modem reports lockout and error together.
BothAsserted == modem.lockout /\ modem.error

\* C40: arbiter stability.  If from some iteration on the modem keeps both
\* lockout and error asserted, then from some iteration on the mode stays
\* LOCKOUT, or from some iteration on it stays ERROR.
C40_Settles ==
    <>[]BothAsserted => (<>[](host.mode = "LOCKOUT") \/ <>[](host.mode = "ERROR"))
=============================================================================
